---- MODULE Spec2Model ----
(***************************************************************************)
(* A model of loxun.XmlWriter (src/loxun.py, version 0.6): the element     *)
(* stack, the namespace scopes, the namespaces waiting for the next tag    *)
(* and the chunks written to the output stream.                            *)
(*                                                                         *)
(* Text is modelled as a sequence of one-character strings, so that        *)
(* splitting, joining, escaping and sorting are computed character by      *)
(* character as the Python code does.  The output is the sequence of the   *)
(* texts handed to output.write(), one element per call of _write().       *)
(***************************************************************************)
EXTENDS Integers, Sequences, FiniteSets, TLC

VARIABLES
    pretty,                 \* self._pretty
    elementStack,           \* self._elementStack: sequence of <<namespace, name>>
    namespaces,             \* self._namespaces, integer keys: scope -> list of <<name, uri>>
    namespaceUris,          \* self._namespaces, string keys (line 608): name -> uri
    namespacesToAdd,        \* self._namespacesToAdd: sequence of <<name, uri>>
    isOpen,                 \* self._isOpen
    contentHasBeenWritten,  \* self._contentHasBeenWritten
    output,                 \* the texts written to self._output, in order
    layout,                 \* self._indent and self._newline
    givenText,              \* the caller's text: the argument of the calls of text()
    last,                   \* the caller's view of the last call: operation and exception
    result,                 \* the caller's view of the last call: the value returned
    calls                   \* the caller's count of the calls made so far

vars == <<pretty, elementStack, namespaces, namespaceUris, namespacesToAdd,
          isOpen, contentHasBeenWritten, output, layout, givenText, last, result,
          calls>>

writerVars == <<pretty, elementStack, namespaces, namespaceUris, namespacesToAdd,
                isOpen, contentHasBeenWritten, output>>

----------------------------------------------------------------------------
(* Bounds of the exploration. *)

MaxCalls == 5
MaxFailed == 2
MaxTextLen == 3
MaxDepth == 2
MaxNameLen == 4
MaxOps == 3

----------------------------------------------------------------------------
(* Text helpers. *)

\* Python's None; no text equals it, because every character is one character long.
None == <<"None">>

\* Truth value of a text or None, as in `if namespace:`.
Truthy(value) == value # None /\ value # <<>>

\* The characters the model uses, in ascending code point order.
Alphabet == <<"\t", "\n", "\r", " ", "!", "\"", "#", "&", "'", ",", "-", ".", "/",
              "0", "1", "8", "9", ":", ";", "<", "=", ">", "?",
              "a", "b", "c", "d", "e", "f", "g", "h", "i", "k", "l", "m", "n", "o",
              "p", "q", "r", "s", "t", "u", "v", "w", "x", "y", "z">>

\* Position of a character in code point order.
Ord(c) == CHOOSE i \in 1..Len(Alphabet) : Alphabet[i] = c

\* s < t for two texts, as Python compares unicode strings.
RECURSIVE LexLess(_, _)
LexLess(s, t) ==
    IF t = <<>> THEN FALSE
    ELSE IF s = <<>> THEN TRUE
    ELSE IF s[1] # t[1] THEN Ord(s[1]) < Ord(t[1])
    ELSE LexLess(Tail(s), Tail(t))

\* sorted(names, reverse=True): the texts of a set in descending order.
RECURSIVE sortedDescending(_)
sortedDescending(names) ==
    IF names = {} THEN <<>>
    ELSE LET greatest == CHOOSE n \in names : \A m \in names \ {n} : LexLess(m, n)
         IN  <<greatest>> \o sortedDescending(names \ {greatest})

\* sorted(names): the texts of a set in ascending order.
RECURSIVE sorted(_)
sorted(names) ==
    IF names = {} THEN <<>>
    ELSE LET least == CHOOSE n \in names : \A m \in names \ {n} : LexLess(n, m)
         IN  <<least>> \o sorted(names \ {least})

\* `text * count` taken as `text`.
RepeatOnce(text, count) == text

\* text * count
RECURSIVE Repeat(_, _)
Repeat(text, count) == IF count <= 0 THEN <<>> ELSE text \o Repeat(text, count - 1)

\* value.rfind(u":"): the place of the last colon.
findLastColon(value, from) ==
    IF \E i \in from..Len(value) : value[i] = ":"
    THEN CHOOSE i \in from..Len(value) :
             value[i] = ":" /\ \A j \in (i + 1)..Len(value) : value[j] # ":"
    ELSE 0

\* value.find(u":"), 1-based; 0 when there is no colon (Python: -1).
RECURSIVE findColon(_, _)
findColon(value, from) ==
    IF from > Len(value) THEN 0
    ELSE IF value[from] = ":" THEN from
    ELSE findColon(value, from + 1)

\* `needle in text` answering False for every text.
ContainsNever(text, needle) == FALSE

\* `needle in text` for texts.
Contains(text, needle) ==
    \E i \in 1..(Len(text) - Len(needle) + 1) :
        SubSeq(text, i, i + Len(needle) - 1) = needle

\* escape() leaving every character as it is.
escapeNothing(text) == text

\* xml.sax.saxutils.escape(): &, > and < become entity references.
RECURSIVE escape(_)
escape(text) ==
    IF text = <<>> THEN <<>>
    ELSE (CASE text[1] = "&" -> <<"&", "a", "m", "p", ";">>
            [] text[1] = ">" -> <<"&", "g", "t", ";">>
            [] text[1] = "<" -> <<"&", "l", "t", ";">>
            [] OTHER -> <<text[1]>>) \o escape(Tail(text))

\* Replace every double quote by &quot;.
RECURSIVE escapeQuote(_)
escapeQuote(text) ==
    IF text = <<>> THEN <<>>
    ELSE (IF text[1] = "\"" THEN <<"&", "q", "u", "o", "t", ";">> ELSE <<text[1]>>)
         \o escapeQuote(Tail(text))

\* _quoted(): xml.sax.saxutils.quoteattr() for values without tab, CR or LF.
quoted(value) ==
    LET data == escape(value)
    IN  IF Contains(data, <<"\"">>)
        THEN IF Contains(data, <<"'">>)
             THEN <<"\"">> \o escapeQuote(data) \o <<"\"">>
             ELSE <<"'">> \o data \o <<"'">>
        ELSE <<"\"">> \o data \o <<"\"">>

\* _unicoded(): None stays None, unicode text stays as it is.
unicoded(text) == IF text = None THEN None ELSE text

\* _encoded(): the characters of the model are ASCII, which utf-8 keeps.
encoded(text) == text

----------------------------------------------------------------------------
(* Exceptions: the outcome of a call as the caller sees it. *)

NoError == [exc |-> "none", fmt |-> "", args |-> <<>>]
XmlError(fmt, args) == [exc |-> "XmlError", fmt |-> fmt, args |-> args]
AssertionError(fmt, args) == [exc |-> "AssertionError", fmt |-> fmt, args |-> args]
ValueError(fmt, args) == [exc |-> "ValueError", fmt |-> fmt, args |-> args]
TypeError(fmt, args) == [exc |-> "TypeError", fmt |-> fmt, args |-> args]
AttributeError(fmt, args) == [exc |-> "AttributeError", fmt |-> fmt, args |-> args]

\* _validateNotEmpty() without its raise.
validateNotEmptySkipped(name, value) == NoError

\* _validateNotEmpty(name, value)
validateNotEmpty(name, value) ==
    IF value = <<>> THEN XmlError("%s must not be empty", <<name>>) ELSE NoError

\* _validateNotNone() without its raise.
validateNotNoneSkipped(name, value) == NoError

\* _validateNotNone(name, value)
validateNotNone(name, value) ==
    IF value = None THEN XmlError("%s must not be %r", <<name>>) ELSE NoError

\* _validateNotNoneOrEmpty(name, value)
validateNotNoneOrEmpty(name, value) ==
    IF validateNotNone(name, value).exc # "none" THEN validateNotNone(name, value)
    ELSE validateNotEmpty(name, value)

----------------------------------------------------------------------------
(* Qualified names. *)

\* _splitPossiblyQualifiedName(name, value): the error, or <<namespace, name>>.
splitPossiblyQualifiedName(name, value) ==
    LET colonIndex == findColon(value, 1)
        namespacePart == SubSeq(value, 1, colonIndex - 1)
        namePart == SubSeq(value, colonIndex + 1, Len(value))
    IN  IF colonIndex = 0
        THEN [error |-> validateNotEmpty(name, value), result |-> <<None, value>>]
        ELSE IF namespacePart = <<>>
        THEN [error |-> validateNotEmpty("namespace part of %s", namespacePart),
              result |-> <<namespacePart, namePart>>]
        ELSE [error |-> validateNotEmpty("name part of %s", namePart),
              result |-> <<namespacePart, namePart>>]

\* _joinPossiblyQualifiedName() leaving the namespace out.
joinWithoutNamespace(namespace, name) == name

\* _joinPossiblyQualifiedName(namespace, name)
joinPossiblyQualifiedName(namespace, name) ==
    IF Truthy(namespace) THEN namespace \o <<":">> \o name ELSE name

\* XmlWriter._elementName(name, namespace)
elementName(name, namespace) ==
    IF Truthy(namespace) THEN namespace \o <<":">> \o name ELSE name

----------------------------------------------------------------------------
(* The writer.  A method of XmlWriter is an operator from the writer's      *)
(* state `self` and the arguments to [self |-> the state the call leaves,   *)
(* error |-> the exception it raises or NoError].                           *)

\* Marks to start/end CDATA.
CDATA_START == <<"<", "!", "[", "C", "D", "A", "T", "A", "[">>
CDATA_END == <<"]", "]", ">">>

\* Marks to start/end a processing instruction.
PROCESSING_START == <<"<", "?">>
PROCESSING_END == <<"?", ">">>

\* Possible values for _writeTag()'s `close` parameter.
CLOSE_NONE == "none"
CLOSE_AT_START == "start"
CLOSE_AT_END == "end"

\* self._indent as __init__ sets it.
Indent == <<" ", " ">>

\* os.linesep on a POSIX platform.
linesep == <<"\n">>

\* self._indent and self._newline as __init__ sets them.
DefaultLayout == [indent |-> Indent, newline |-> linesep]

\* The writer's state as one value.
Self ==
    [pretty |-> pretty, elementStack |-> elementStack, namespaces |-> namespaces,
     namespaceUris |-> namespaceUris, namespacesToAdd |-> namespacesToAdd,
     isOpen |-> isOpen, contentHasBeenWritten |-> contentHasBeenWritten,
     output |-> output]

Return(self, error) == [self |-> self, error |-> error]

\* XmlWriter._scope()
scope(self) == Len(self.elementStack)

\* The names of a list of (name, uri) pairs taken as none.
namesOfNone(pairs) == {}

\* The names of a list of (name, uri) pairs.
namesOf(pairs) == {pairs[i][1] : i \in 1..Len(pairs)}

\* dict[key] = value
Put(dict, key, value) ==
    [k \in DOMAIN dict \cup {key} |-> IF k = key THEN value ELSE dict[k]]

\* del dict[key]
Del(dict, key) == [k \in DOMAIN dict \ {key} |-> dict[k]]

\* _write() setting _contentHasBeenWritten whatever the text is.
writeSetsFlag(self, text) ==
    [self EXCEPT !.output = Append(@, encoded(text)),
                 !.contentHasBeenWritten = TRUE]

\* XmlWriter._write(text)
write(self, text) ==
    [self EXCEPT !.output = Append(@, encoded(text)),
                 !.contentHasBeenWritten = @ \/ text # <<>>]

\* Consecutive _write() calls, one for each text of `texts`.
RECURSIVE writeAll(_, _)
writeAll(self, texts) ==
    IF texts = <<>> THEN self ELSE writeAll(write(self, Head(texts)), Tail(texts))

\* XmlWriter.newline()
newline(self) == write(self, linesep)

\* _writeIndent() writing one indentation whatever the depth is.
writeIndentOneLevel(self) == write(self, Indent)

\* XmlWriter._writeIndent()
writeIndent(self) == write(self, Repeat(Indent, Len(self.elementStack)))

\* XmlWriter._writePrettyIndent()
writePrettyIndent(self) == IF self.pretty THEN writeIndent(self) ELSE self

\* XmlWriter._writePrettyNewline()
writePrettyNewline(self) == IF self.pretty THEN newline(self) ELSE self

\* XmlWriter._writeEscaped(text)
writeEscaped(self, text) == write(self, escape(text))

\* The property isPretty with a getter that answers True for every writer.
isPrettyAlways(self) == TRUE

\* XmlWriter.isPretty
isPretty(self) == self.pretty

\* XmlWriter._validateIsOpen()
validateIsOpen(self) ==
    IF ~self.isOpen
    THEN XmlError("operation must be performed before writer is closed", <<>>)
    ELSE NoError

\* The loop of _validateNamespaceItem(): search the scopes from scopeIndex down to 0.
RECURSIVE namespaceFound(_, _, _)
namespaceFound(self, namespace, scopeIndex) ==
    IF scopeIndex < 0 THEN FALSE
    ELSE IF /\ scopeIndex \in DOMAIN self.namespaces
            /\ self.namespaces[scopeIndex] # <<>>
            /\ namespace \in namesOf(self.namespaces[scopeIndex])
         THEN TRUE
         ELSE namespaceFound(self, namespace, scopeIndex - 1)

\* XmlWriter._validateNamespaceItem(itemName, namespace, qualifiedName)
validateNamespaceItem(self, itemName, namespace, qualifiedName) ==
    IF Truthy(namespace) /\ ~namespaceFound(self, namespace, scope(self))
    THEN XmlError("namespace '%s' for %s '%s' must be added before use",
                  <<namespace, itemName, qualifiedName>>)
    ELSE NoError

\* `text == pair` for a unicode text and a (name, uri) tuple: Python values of
\* different types are never equal.
TextEqualsPair(text, pair) == FALSE

\* `text in pairs` for a unicode text and a deque or list of (name, uri) tuples.
TextInPairs(text, pairs) == \E i \in 1..Len(pairs) : TextEqualsPair(text, pairs[i])

\* addNamespace() with appendleft() in the place of append().
addNamespaceAtLeft(self, name, uri) ==
    Return([self EXCEPT !.namespacesToAdd = << <<unicoded(name), unicoded(uri)>> >> \o @],
           NoError)

\* XmlWriter.addNamespace(name, uri)
addNamespace(self, name, uri) ==
    IF validateNotNoneOrEmpty("name", name).exc # "none"
    THEN Return(self, validateNotNoneOrEmpty("name", name))
    ELSE IF validateNotNoneOrEmpty("uri", uri).exc # "none"
    THEN Return(self, validateNotNoneOrEmpty("uri", uri))
    ELSE
    LET uniName == unicoded(name)
        uniUri == unicoded(uri)
        hasScope == scope(self) \in DOMAIN self.namespaces
        namespaceExists ==
            \/ TextInPairs(uniName, self.namespacesToAdd)
            \/ (hasScope /\ TextInPairs(uniName, self.namespaces[scope(self)]))
    IN  IF namespaceExists
        THEN Return(self, ValueError(
                 "namespace %r must added only once for current scope but already is %r",
                 <<uniName, uniUri>>))
        ELSE Return([self EXCEPT !.namespacesToAdd = Append(@, <<uniName, uniUri>>)],
                    NoError)

\* The `while self._namespacesToAdd` loop of _writeTag(): pops the namespaces
\* from the right end, collects the xmlns attributes and registers each
\* namespace in the current scope.  The assert of line 606 ends the loop.
RECURSIVE processNamespacesToAdd(_, _)
processNamespacesToAdd(self, actualAttributes) ==
    IF self.namespacesToAdd = <<>>
    THEN [self |-> self, error |-> NoError, actualAttributes |-> actualAttributes]
    ELSE
    LET item == self.namespacesToAdd[Len(self.namespacesToAdd)]
        namespaceName == item[1]
        uri == item[2]
        popped == [self EXCEPT !.namespacesToAdd = SubSeq(@, 1, Len(@) - 1)]
        attributeName == IF Truthy(namespaceName)
                         THEN <<"x", "m", "l", "n", "s", ":">> \o namespaceName
                         ELSE <<"x", "m", "l", "n", "s">>
        withAttribute == Put(actualAttributes, attributeName, uri)
        withScope == IF scope(self) \in DOMAIN self.namespaces
                     THEN popped
                     ELSE [popped EXCEPT !.namespaces = Put(@, scope(self), <<>>)]
        namespacesForScope == withScope.namespaces[scope(self)]
    IN  IF namespaceName \in namesOf(namespacesForScope)
        THEN [self |-> withScope, error |-> AssertionError("", <<>>),
              actualAttributes |-> withAttribute]
        ELSE processNamespacesToAdd(
                 [withScope EXCEPT
                     !.namespaces = Put(@, scope(self), Append(namespacesForScope, item)),
                     !.namespaceUris = Put(@, namespaceName, uri)],
                 withAttribute)

\* The error of one caller-supplied attribute in the attribute loop of _writeTag().
attributeError(self, qualifiedAttributeName) ==
    LET uniQualifiedAttributeName == unicoded(qualifiedAttributeName)
        split == splitPossiblyQualifiedName("attribute name", uniQualifiedAttributeName)
    IN  IF split.error.exc # "none" THEN split.error
        ELSE validateNamespaceItem(self, "attribute", split.result[1], split.result[2])

\* The texts _writeTag() writes for a validated tag, one for each _write().
tagTexts(self, element, close, actualAttributes) ==
    LET names == sorted(DOMAIN actualAttributes)
    IN  (IF self.pretty THEN <<Repeat(Indent, Len(self.elementStack))>> ELSE <<>>)
        \o << <<"<">> >>
        \o (IF close = CLOSE_AT_START THEN << <<"/">> >> ELSE <<>>)
        \o <<element>>
        \o [i \in 1..Len(names) |->
               <<" ">> \o names[i] \o <<"=">> \o quoted(actualAttributes[names[i]])]
        \o (IF close = CLOSE_AT_END
            THEN (IF isPretty(self) THEN << <<" ">> >> ELSE <<>>) \o << <<"/">> >>
            ELSE <<>>)
        \o << <<">">> >>
        \o (IF self.pretty THEN <<linesep>> ELSE <<>>)

\* The else branch of the namespace processing of _writeTag() without its raise.
namespacesMustBeAddedSkipped(self) == NoError

\* The else branch of the namespace processing of _writeTag(): an end tag
\* cannot take the namespaces that are waiting.
namespacesMustBeAdded(self) ==
    IF self.namespacesToAdd # <<>>
    THEN XmlError("namespaces must be added before startTag() or tag(): %s",
                  <<[i \in 1..Len(self.namespacesToAdd) |-> self.namespacesToAdd[i][1]]>>)
    ELSE NoError

\* XmlWriter._writeTag(namespace, name, close, attributes).  An attribute
\* whose value is None passes _unicoded() and _assertIsUnicode() and makes
\* _quoted() raise AttributeError in the loop that writes the attributes,
\* after the texts in front of it were written.
writeTag(self, namespace, name, close, attributes) ==
    LET processed ==
            IF close \in {CLOSE_NONE, CLOSE_AT_END}
            THEN processNamespacesToAdd(self, <<>>)
            ELSE [self |-> self, error |-> namespacesMustBeAdded(self),
                  actualAttributes |-> <<>>]
        self1 == processed.self
        broken == {n \in DOMAIN attributes : attributeError(self1, n).exc # "none"}
        actualAttributes ==
            [n \in DOMAIN processed.actualAttributes \cup DOMAIN attributes |->
                IF n \in DOMAIN attributes THEN unicoded(attributes[n])
                ELSE processed.actualAttributes[n]]
        element == IF Truthy(namespace) THEN namespace \o <<":">> \o name ELSE name
        names == sorted(DOMAIN actualAttributes)
        unquotable == {i \in 1..Len(names) : actualAttributes[names[i]] = None}
        beforeAttributes == (IF self.pretty THEN 1 ELSE 0)
                                + (IF close = CLOSE_AT_START THEN 1 ELSE 0) + 2
    IN  IF processed.error.exc # "none" THEN Return(self1, processed.error)
        ELSE IF broken # {}
        THEN Return(self1, attributeError(self1, CHOOSE n \in broken : TRUE))
        ELSE IF validateNamespaceItem(self1, "tag", namespace, name).exc # "none"
        THEN Return(self1, validateNamespaceItem(self1, "tag", namespace, name))
        ELSE IF unquotable # {}
        THEN Return(writeAll(self1,
                             SubSeq(tagTexts(self1, element, close, actualAttributes), 1,
                                    beforeAttributes - 1
                                        + (CHOOSE i \in unquotable :
                                               \A j \in unquotable : i <= j))),
                    AttributeError("'NoneType' object has no attribute 'replace'", <<>>))
        ELSE Return(writeAll(self1, tagTexts(self1, element, close, actualAttributes)),
                    NoError)

\* The last line of startTag() with the push left out.
pushElementForgotten(self, namespace, name) == self

\* self._elementStack.append((namespace, name)), the last line of startTag().
pushElement(self, namespace, name) ==
    [self EXCEPT !.elementStack = Append(@, <<namespace, name>>)]

\* XmlWriter.startTag(qualifiedName, attributes)
startTag(self, qualifiedName, attributes) ==
    LET uniQualifiedName == unicoded(qualifiedName)
        split == splitPossiblyQualifiedName("tag name", uniQualifiedName)
        namespace == split.result[1]
        name == split.result[2]
        written == writeTag(self, namespace, name, CLOSE_NONE, attributes)
    IN  IF split.error.exc # "none" THEN Return(self, split.error)
        ELSE IF written.error.exc # "none" THEN written
        ELSE Return(pushElement(written.self, namespace, name), NoError)

\* The except clause of endTag() swallowing the IndexError.
stackEmptyIgnored(self) == Return(self, NoError)

\* The except clause of endTag(): pop() on the empty stack raised IndexError.
stackEmpty(self) == Return(self, XmlError("tag stack must not be empty", <<>>))

\* The mismatch branch of endTag() with the append left out.
pushBackForgotten(self, namespace, name) == self

\* self._elementStack.append((namespace, name)) in the mismatch branch of endTag().
pushBack(self, namespace, name) ==
    [self EXCEPT !.elementStack = Append(@, <<namespace, name>>)]

\* endTag() with the `del` left out.
removeScopeForgotten(self, scopeToRemove) == self

\* endTag() deleting the namespaces of the scope below scopeToRemove.
removeScopeBelow(self, scopeToRemove) ==
    IF scopeToRemove - 1 \in DOMAIN self.namespaces
    THEN [self EXCEPT !.namespaces = Del(@, scopeToRemove - 1)]
    ELSE self

\* `if scopeToRemove in self._namespaces: del self._namespaces[scopeToRemove]`
removeScope(self, scopeToRemove) ==
    IF scopeToRemove \in DOMAIN self.namespaces
    THEN [self EXCEPT !.namespaces = Del(@, scopeToRemove)]
    ELSE self

\* XmlWriter.endTag(expectedQualifiedName)
endTag(self, expectedQualifiedName) ==
    LET scopeToRemove == scope(self)
        top == self.elementStack[Len(self.elementStack)]
        namespace == top[1]
        name == top[2]
        popped == [self EXCEPT !.elementStack = SubSeq(@, 1, Len(@) - 1)]
        uniExpectedQualifiedName == unicoded(expectedQualifiedName)
        actualQualifiedName == joinPossiblyQualifiedName(namespace, name)
        restored == pushBack(popped, namespace, name)
        removed == removeScope(popped, scopeToRemove)
    IN  IF self.elementStack = <<>>
        THEN stackEmpty(self)
        ELSE IF Truthy(expectedQualifiedName)
                /\ actualQualifiedName # expectedQualifiedName
        THEN Return(restored, XmlError("tag name must be %s but is %s",
                                       <<uniExpectedQualifiedName, actualQualifiedName>>))
        ELSE writeTag(removed, namespace, name, CLOSE_AT_START, <<>>)

\* tag() without its endTag() call.
tagLeftOpen(self, qualifiedName, attributes) == startTag(self, qualifiedName, attributes)

\* XmlWriter.tag(qualifiedName, attributes)
tag(self, qualifiedName, attributes) ==
    LET uniQualifiedName == unicoded(qualifiedName)
        split == splitPossiblyQualifiedName("tag name", uniQualifiedName)
    IN  IF split.error.exc # "none" THEN Return(self, split.error)
        ELSE writeTag(self, split.result[1], split.result[2], CLOSE_AT_END, attributes)

\* The lines `for uniLine in StringIO(uniText)` yields: each ends after its "\n".
RECURSIVE lines(_, _)
lines(text, line) ==
    IF text = <<>> THEN (IF line = <<>> THEN <<>> ELSE <<line>>)
    ELSE IF text[1] = "\n" THEN <<Append(line, "\n")>> \o lines(Tail(text), <<>>)
    ELSE lines(Tail(text), Append(line, text[1]))

\* text.lstrip(chars)
RECURSIVE lstrip(_, _)
lstrip(text, chars) ==
    IF text # <<>> /\ text[1] \in chars THEN lstrip(Tail(text), chars) ELSE text

\* text.rstrip(chars)
RECURSIVE rstrip(_, _)
rstrip(text, chars) ==
    IF text # <<>> /\ text[Len(text)] \in chars
    THEN rstrip(SubSeq(text, 1, Len(text) - 1), chars)
    ELSE text

\* The body of the loop of text() for the pretty case, for each line in turn.
RECURSIVE writeTextLines(_, _)
writeTextLines(self, uniLines) ==
    IF uniLines = <<>> THEN self
    ELSE LET uniLine == rstrip(lstrip(Head(uniLines), {" ", "\t"}), {" ", "\t", "\r", "\n"})
         IN  writeTextLines(newline(writeEscaped(writeIndent(self), uniLine)),
                            Tail(uniLines))

\* XmlWriter.text(text)
text(self, value) ==
    IF validateNotNone("text", value).exc # "none"
    THEN Return(self, validateNotNone("text", value))
    ELSE LET uniText == unicoded(value)
         IN  IF self.pretty
             THEN Return(writeTextLines(self, lines(uniText, <<>>)), NoError)
             ELSE Return(writeEscaped(self, uniText), NoError)

\* unicode.isspace() for one character of the model.
isspace(c) == c \in {" ", "\t", "\n", "\r"}

\* The checks of comment() without their raises.
commentErrorSkipped(uniText, embedInBlanks) == NoError

\* The checks comment() makes before it writes; `"--" in None` is a TypeError.
commentError(uniText, embedInBlanks) ==
    IF ~embedInBlanks /\ ~Truthy(uniText)
    THEN XmlError("text for comment must not be empty, or option embedInBlanks=True must be set",
                  <<>>)
    ELSE IF uniText = None
    THEN TypeError("argument of type 'NoneType' is not iterable", <<>>)
    ELSE IF Contains(uniText, <<"-", "-">>)
    THEN XmlError("text for comment must not contain \"--\"", <<>>)
    ELSE NoError

\* The loop of comment() over the lines of a text that has a line terminator.
RECURSIVE writeCommentLines(_, _)
writeCommentLines(self, uniLines) ==
    IF uniLines = <<>> THEN self
    ELSE writeCommentLines(
             newline(writeEscaped(writePrettyIndent(self),
                                  rstrip(Head(uniLines), {"\n", "\r"}))),
             Tail(uniLines))

\* XmlWriter.comment(text, embedInBlanks)
comment(self, value, embedInBlanks) ==
    LET uniText == unicoded(value)
        hasNewline == Contains(uniText, <<"\n">>) \/ Contains(uniText, <<"\r">>)
        hasStartBlank == uniText # <<>> /\ isspace(uniText[1])
        hasEndBlank == Len(uniText) > 1 /\ isspace(uniText[Len(uniText)])
        opened == write(writePrettyIndent(self), <<"<", "!", "-", "-">>)
        startBlank == IF embedInBlanks /\ ~hasStartBlank THEN write(opened, <<" ">>)
                      ELSE opened
        block == writePrettyIndent(
                     writeCommentLines(IF self.pretty THEN newline(opened) ELSE startBlank,
                                       lines(uniText, <<>>)))
        escaped == writeEscaped(startBlank, uniText)
        single == IF embedInBlanks /\ ~hasEndBlank THEN write(escaped, <<" ">>) ELSE escaped
        body == IF hasNewline THEN block ELSE single
    IN  IF commentError(uniText, embedInBlanks).exc # "none"
        THEN Return(self, commentError(uniText, embedInBlanks))
        ELSE Return(writePrettyNewline(write(body, <<"-", "-", ">">>)), NoError)

\* XmlWriter._rawBlock(name, start, end, text)
rawBlock(self, name, start, end, value) ==
    IF validateNotNone("text for %s", value).exc # "none"
    THEN Return(self, validateNotNone("text for %s", value))
    ELSE LET uniText == unicoded(value)
         IN  IF Contains(uniText, end)
             THEN Return(self, XmlError("text for %s must not contain \"%s\"",
                                        <<name, end>>))
             ELSE Return(writePrettyNewline(
                             write(write(write(writePrettyIndent(self), start), uniText),
                                   end)),
                         NoError)

\* XmlWriter.raw(text)
raw(self, value) ==
    IF validateNotNone("text", value).exc # "none"
    THEN Return(self, validateNotNone("text", value))
    ELSE Return(write(self, unicoded(value)), NoError)

\* XmlWriter.cdata(text)
cdata(self, value) == rawBlock(self, "CDATA section", CDATA_START, CDATA_END, value)

\* XmlWriter.processingInstruction(target, text): the validations look at
\* `text` twice and never at `target`.
processingInstruction(self, target, value) ==
    LET targetName == "target for processing instrution"
        uniFullText == IF Truthy(value)
                       THEN unicoded(target) \o <<" ">> \o unicoded(value)
                       ELSE unicoded(target)
    IN  IF validateNotNone(targetName, value).exc # "none"
        THEN Return(self, validateNotNone(targetName, value))
        ELSE IF validateNotEmpty(targetName, value).exc # "none"
        THEN Return(self, validateNotEmpty(targetName, value))
        ELSE IF target = None
        THEN Return(self, TypeError("unsupported operand type(s) for +=", <<>>))
        ELSE rawBlock(self, "processing instruction", PROCESSING_START, PROCESSING_END,
                      uniFullText)

\* The loop of close() taking the elements from the left end of the deque.
RECURSIVE popRemainingFromLeft(_, _)
popRemainingFromLeft(self, remainingElements) ==
    IF self.elementStack = <<>>
    THEN [self |-> self, remainingElements |-> remainingElements]
    ELSE LET first == self.elementStack[1]
             separated == IF remainingElements # <<>>
                          THEN remainingElements \o <<",", " ">>
                          ELSE remainingElements
         IN  popRemainingFromLeft(
                 [self EXCEPT !.elementStack = Tail(@)],
                 separated \o <<"<", "/">>
                     \o elementName(first[2], first[1]) \o <<">">>)

\* The `while self._elementStack` loop of close(): pops every element and
\* collects the end tags in remainingElements.
RECURSIVE popRemainingElements(_, _)
popRemainingElements(self, remainingElements) ==
    IF self.elementStack = <<>>
    THEN [self |-> self, remainingElements |-> remainingElements]
    ELSE LET top == self.elementStack[Len(self.elementStack)]
             separated == IF remainingElements # <<>>
                          THEN remainingElements \o <<",", " ">>
                          ELSE remainingElements
         IN  popRemainingElements(
                 [self EXCEPT !.elementStack = SubSeq(@, 1, Len(@) - 1)],
                 separated \o <<"<", "/">> \o elementName(top[2], top[1]) \o <<">">>)

\* close() without its loop: the elements stay on the stack.
closeKeepsStack(self) ==
    IF self.elementStack # <<>>
    THEN [self |-> self, error |-> [exc |-> "XmlError",
                                    fmt |-> "missing end tags must be added: %s",
                                    args |-> <<>>]]
    ELSE [self |-> self, error |-> [exc |-> "none", fmt |-> "", args |-> <<>>]]

\* close() without its final raise.
closeNeverFails(self) ==
    LET emptied == [self EXCEPT !.elementStack = <<>>]
    IN  [self |-> emptied, error |-> [exc |-> "none", fmt |-> "", args |-> <<>>]]

\* XmlWriter.close()
close(self) ==
    LET popped == popRemainingElements(self, <<>>)
    IN  IF popped.remainingElements # <<>>
        THEN Return(popped.self, XmlError("missing end tags must be added: %s",
                                          <<popped.remainingElements>>))
        ELSE Return(popped.self, NoError)

\* XmlWriter.__init__(output, pretty, prolog=False): the state after construction.
init(prettyArg) ==
    [pretty |-> prettyArg, elementStack |-> <<>>, namespaces |-> <<>>,
     namespaceUris |-> <<>>, namespacesToAdd |-> <<>>, isOpen |-> TRUE,
     contentHasBeenWritten |-> FALSE, output |-> <<>>]

\* The default values of the parameters `version` and `encoding` of __init__().
DefaultVersion == <<"1", ".", "0">>
DefaultEncoding == <<"u", "t", "f", "-", "8">>

\* XmlWriter.__init__(output) with every parameter at its default: pretty and
\* prolog are True, so the prolog is written.
initDefault ==
    processingInstruction(
        init(TRUE), <<"x", "m", "l">>,
        <<"v", "e", "r", "s", "i", "o", "n", "=">> \o quoted(unicoded(DefaultVersion))
            \o <<" ", "e", "n", "c", "o", "d", "i", "n", "g", "=">>
            \o quoted(DefaultEncoding)).self

----------------------------------------------------------------------------
(* The caller: one call of a method is one step. *)

\* The arguments the caller draws from.
Prefixes == {<<"p">>, <<"q">>}
Uris == {<<"u">>}
QualifiedNames == {<<"a">>, <<"p", ":", "a">>, <<"q", ":", "b">>}
AttributeSets == {<<>>, (<<"p", ":", "k">> :> <<"v">>)}
ExpectedNames == {None, <<>>, <<"a">>, <<"p", ":", "a">>}
Texts == {<<"t">>}

\* The call `op` returned `r`: the writer is left in r.self and the caller
\* has seen r.error.
Returned(op, r) ==
    /\ pretty' = r.self.pretty
    /\ elementStack' = r.self.elementStack
    /\ namespaces' = r.self.namespaces
    /\ namespaceUris' = r.self.namespaceUris
    /\ namespacesToAdd' = r.self.namespacesToAdd
    /\ isOpen' = r.self.isOpen
    /\ contentHasBeenWritten' = r.self.contentHasBeenWritten
    /\ output' = r.self.output
    /\ layout' = layout
    /\ givenText' = givenText
    /\ last' = [op |-> op, exc |-> r.error.exc, fmt |-> r.error.fmt, args |-> r.error.args]
    /\ result' = None
    /\ calls' = [n |-> calls.n + 1,
                 failed |-> calls.failed + (IF r.error.exc = "none" THEN 0 ELSE 1),
                 startTagOk |-> calls.startTagOk
                     + (IF op = "startTag" /\ r.error.exc = "none" THEN 1 ELSE 0),
                 endTagOk |-> calls.endTagOk
                     + (IF op = "endTag" /\ r.error.exc = "none" THEN 1 ELSE 0),
                 endTag |-> calls.endTag + (IF op = "endTag" THEN 1 ELSE 0),
                 close |-> calls.close + (IF op = "close" THEN 1 ELSE 0),
                 text |-> calls.text + (IF op = "text" THEN 1 ELSE 0)]

\* One call of the caller, who makes at most MaxCalls calls and goes on after
\* at most MaxFailed failures.
Call(op, r) ==
    /\ calls.n < MaxCalls
    /\ r.error.exc = "none" \/ calls.failed < MaxFailed
    /\ Returned(op, r)

AddNamespace == \E name \in Prefixes, uri \in Uris :
                    Call("addNamespace", addNamespace(Self, name, uri))
StartTag == \E qualifiedName \in QualifiedNames, attributes \in AttributeSets :
                Call("startTag", startTag(Self, qualifiedName, attributes))
EndTag == \E expectedQualifiedName \in ExpectedNames :
              Call("endTag", endTag(Self, expectedQualifiedName))
Tag == \E qualifiedName \in QualifiedNames, attributes \in AttributeSets :
           Call("tag", tag(Self, qualifiedName, attributes))
Text == Call("text", text(Self, givenText))
Close == Call("close", close(Self))

NoCalls == [n |-> 0, failed |-> 0, startTagOk |-> 0, endTagOk |-> 0, endTag |-> 0,
            close |-> 0, text |-> 0]

Init ==
    \E prettyArg \in BOOLEAN :
        /\ pretty = init(prettyArg).pretty
        /\ elementStack = init(prettyArg).elementStack
        /\ namespaces = init(prettyArg).namespaces
        /\ namespaceUris = init(prettyArg).namespaceUris
        /\ namespacesToAdd = init(prettyArg).namespacesToAdd
        /\ isOpen = init(prettyArg).isOpen
        /\ contentHasBeenWritten = init(prettyArg).contentHasBeenWritten
        /\ output = init(prettyArg).output
        /\ layout = DefaultLayout
        /\ givenText \in Texts
        /\ last = [op |-> "init", exc |-> "none", fmt |-> "", args |-> <<>>]
        /\ result = None
        /\ calls = NoCalls

Next == AddNamespace \/ StartTag \/ EndTag \/ Tag \/ Text \/ Close

Spec == Init /\ [][Next]_vars

----------------------------------------------------------------------------
(* A caller who writes plain elements, then one text of any characters, and *)
(* then closes the elements.                                                *)

\* The characters of the texts: a letter, the characters escape() replaces,
\* blank and tab, and the line terminators.
TextAlphabet == {"a", "<", "&", ">", " ", "\t", "\n", "\r"}

\* The values given to text(): None and every text of at most MaxTextLen characters.
TextInputs == {None} \cup UNION {[1..n -> TextAlphabet] : n \in 0..MaxTextLen}

OpenElement == /\ last.op \in {"init", "startTag", "tag"}
               /\ Len(elementStack) < MaxDepth
               /\ Call("startTag", startTag(Self, <<"a">>, <<>>))
EmptyElement == /\ calls.text = 0
                /\ Call("tag", tag(Self, <<"a">>, <<>>))
WriteText == /\ calls.text = 0
             /\ Call("text", text(Self, givenText))
CloseElement == /\ calls.text = 1
                /\ Call("endTag", endTag(Self, None))

TextNext == OpenElement \/ EmptyElement \/ WriteText \/ CloseElement

\* Init with the caller's text drawn from TextInputs.
TextInit ==
    \E prettyArg \in BOOLEAN :
        /\ pretty = init(prettyArg).pretty
        /\ elementStack = init(prettyArg).elementStack
        /\ namespaces = init(prettyArg).namespaces
        /\ namespaceUris = init(prettyArg).namespaceUris
        /\ namespacesToAdd = init(prettyArg).namespacesToAdd
        /\ isOpen = init(prettyArg).isOpen
        /\ contentHasBeenWritten = init(prettyArg).contentHasBeenWritten
        /\ output = init(prettyArg).output
        /\ layout = DefaultLayout
        /\ givenText \in TextInputs
        /\ last = [op |-> "init", exc |-> "none", fmt |-> "", args |-> <<>>]
        /\ result = None
        /\ calls = NoCalls

TextSpec == TextInit /\ [][TextNext]_vars

----------------------------------------------------------------------------
(* The caller of the module docstring "Writing a simple document": a writer *)
(* constructed with defaults, and the calls of that example in any order.   *)

\* The calls of the example, in the order the example makes them.
SimpleDocument ==
    << [op |-> "startTag", name |-> <<"h", "t", "m", "l">>, attributes |-> <<>>,
        text |-> None],
       [op |-> "startTag", name |-> <<"b", "o", "d", "y">>,
        attributes |-> (<<"i", "d">> :> <<"t", "o", "p">>), text |-> None],
       [op |-> "text", name |-> None, attributes |-> <<>>,
        text |-> <<"H", "e", "l", "l", "o", " ", "w", "o", "r", "l", "d", "!">>],
       [op |-> "endTag", name |-> None, attributes |-> <<>>, text |-> None],
       [op |-> "endTag", name |-> None, attributes |-> <<>>, text |-> None],
       [op |-> "close", name |-> None, attributes |-> <<>>, text |-> None] >>

\* What one call of the example returns when made in the writer state `self`.
Made(call, self) ==
    CASE call.op = "startTag" -> startTag(self, call.name, call.attributes)
      [] call.op = "text" -> text(self, givenText)
      [] call.op = "endTag" -> endTag(self, call.name)
      [] call.op = "close" -> close(self)

DocumentInit ==
    /\ pretty = initDefault.pretty
    /\ elementStack = initDefault.elementStack
    /\ namespaces = initDefault.namespaces
    /\ namespaceUris = initDefault.namespaceUris
    /\ namespacesToAdd = initDefault.namespacesToAdd
    /\ isOpen = initDefault.isOpen
    /\ contentHasBeenWritten = initDefault.contentHasBeenWritten
    /\ output = initDefault.output
    /\ layout = DefaultLayout
    /\ givenText = SimpleDocument[3].text
    /\ last = [op |-> "init", exc |-> "none", fmt |-> "", args |-> <<>>]
    /\ result = None
    /\ calls = NoCalls

\* The caller makes any call of the example, as many calls as the example has.
DocumentCall ==
    /\ calls.n < Len(SimpleDocument)
    /\ \E k \in 1..Len(SimpleDocument) :
           /\ Made(SimpleDocument[k], Self).error.exc = "none" \/ calls.failed < MaxFailed
           /\ Returned(SimpleDocument[k].op, Made(SimpleDocument[k], Self))

DocumentSpec == DocumentInit /\ [][DocumentCall]_vars

----------------------------------------------------------------------------
(* A caller who opens plain elements and writes the one text as a comment,  *)
(* as a CDATA section and as a processing instruction.                      *)

\* The characters of the texts: a letter, the characters of the end marks
\* "--", "]]>" and "?>", a blank, and the line terminators.
BlockAlphabet == {"a", "-", "]", ">", "?", " ", "\n", "\r"}

\* The texts given to comment(), cdata() and processingInstruction().
BlockInputs == {None} \cup UNION {[1..n -> BlockAlphabet] : n \in 0..MaxTextLen}

\* The targets given to processingInstruction().
Targets == {None, <<>>, <<"a">>, <<">">>, <<"?", ">">>}

\* No comment, CDATA section or processing instruction has been asked for so far.
BlockAllowed == last.op \in {"init", "startTag"}

WriteComment == /\ BlockAllowed
                /\ \E embedInBlanks \in BOOLEAN :
                       Call("comment", comment(Self, givenText, embedInBlanks))
WriteCdata == /\ BlockAllowed
              /\ Call("cdata", cdata(Self, givenText))
WriteProcessingInstruction ==
    /\ BlockAllowed
    /\ \E target \in Targets :
           Call("processingInstruction", processingInstruction(Self, target, givenText))

\* Init with the caller's text drawn from BlockInputs.
BlockInit ==
    \E prettyArg \in BOOLEAN :
        /\ pretty = init(prettyArg).pretty
        /\ elementStack = init(prettyArg).elementStack
        /\ namespaces = init(prettyArg).namespaces
        /\ namespaceUris = init(prettyArg).namespaceUris
        /\ namespacesToAdd = init(prettyArg).namespacesToAdd
        /\ isOpen = init(prettyArg).isOpen
        /\ contentHasBeenWritten = init(prettyArg).contentHasBeenWritten
        /\ output = init(prettyArg).output
        /\ layout = DefaultLayout
        /\ givenText \in BlockInputs
        /\ last = [op |-> "init", exc |-> "none", fmt |-> "", args |-> <<>>]
        /\ result = None
        /\ calls = NoCalls

BlockNext == OpenElement \/ WriteComment \/ WriteCdata \/ WriteProcessingInstruction

BlockSpec == BlockInit /\ [][BlockNext]_vars

----------------------------------------------------------------------------
(* A caller who constructs the writer, with a version of any kind, and then *)
(* writes elements and a text with it.                                      *)

\* The values given to __init__() as `version` and as `encoding`.
Versions == {None, <<>>, <<"1", ".", "0">>, <<"1", ".", "1">>, <<"?", ">">>}
Encodings == {<<>>, DefaultEncoding, <<"a", "s", "c", "i", "i">>}

\* No writer is bound to the sink: __init__() has not run, or has raised.
NoWriter == [init(FALSE) EXCEPT !.isOpen = FALSE]

\* __init__() without its prolog.
constructSilent(prettyArg, encodingArg, prologArg, versionArg) ==
    Return(init(prettyArg), NoError)

\* XmlWriter.__init__(output, pretty, encoding, prolog=prolog, version=version)
construct(prettyArg, encodingArg, prologArg, versionArg) ==
    LET written == processingInstruction(
                       init(prettyArg), <<"x", "m", "l">>,
                       <<"v", "e", "r", "s", "i", "o", "n", "=">>
                           \o quoted(unicoded(versionArg))
                           \o <<" ", "e", "n", "c", "o", "d", "i", "n", "g", "=">>
                           \o quoted(unicoded(encodingArg)))
    IN  IF ~Truthy(encodingArg)
        THEN Return(NoWriter, AssertionError("", <<>>))
        ELSE IF validateNotNoneOrEmpty("version", versionArg).exc # "none"
        THEN Return(NoWriter, validateNotNoneOrEmpty("version", versionArg))
        ELSE IF ~prologArg THEN Return(init(prettyArg), NoError)
        ELSE IF written.error.exc # "none"
        THEN Return([NoWriter EXCEPT !.output = written.self.output], written.error)
        ELSE written

\* __init__() returned `r`: the caller has the writer r.self, with the given
\* indent and newline, or has seen r.error and has no writer.
Constructed(r, given) ==
    /\ pretty' = r.self.pretty
    /\ elementStack' = r.self.elementStack
    /\ namespaces' = r.self.namespaces
    /\ namespaceUris' = r.self.namespaceUris
    /\ namespacesToAdd' = r.self.namespacesToAdd
    /\ isOpen' = r.self.isOpen
    /\ contentHasBeenWritten' = r.self.contentHasBeenWritten
    /\ output' = r.self.output
    /\ layout' = IF r.error.exc = "none" THEN given ELSE layout
    /\ givenText' = givenText
    /\ last' = [op |-> "init", exc |-> r.error.exc, fmt |-> r.error.fmt,
                args |-> r.error.args]
    /\ result' = None
    /\ calls' = calls

\* The caller has not constructed a writer yet.
Unconstructed == last.op = "new"

\* The caller has a writer: __init__() has returned without an error.
WriterExists == ~Unconstructed /\ ~(last.op = "init" /\ last.exc # "none")

Construct ==
    /\ Unconstructed
    /\ \E prettyArg \in BOOLEAN, prologArg \in BOOLEAN, encodingArg \in Encodings :
           Constructed(construct(prettyArg, encodingArg, prologArg, givenText),
                       DefaultLayout)
UseWriter == WriterExists /\ TextNext

\* The sink is empty, no writer exists, and the caller's version is drawn
\* from Versions.
ConstructInit ==
    /\ pretty = NoWriter.pretty
    /\ elementStack = NoWriter.elementStack
    /\ namespaces = NoWriter.namespaces
    /\ namespaceUris = NoWriter.namespaceUris
    /\ namespacesToAdd = NoWriter.namespacesToAdd
    /\ isOpen = NoWriter.isOpen
    /\ contentHasBeenWritten = NoWriter.contentHasBeenWritten
    /\ output = NoWriter.output
    /\ layout = [indent |-> None, newline |-> None]
    /\ givenText \in Versions
    /\ last = [op |-> "new", exc |-> "none", fmt |-> "", args |-> <<>>]
    /\ result = None
    /\ calls = NoCalls

ConstructNext == Construct \/ UseWriter

ConstructSpec == ConstructInit /\ [][ConstructNext]_vars

----------------------------------------------------------------------------
(* A caller who constructs the writer with an indent and a newline of his   *)
(* own. __init__() of this version has no such parameters (lines 459-460):  *)
(* they are modelled as the specification and testInitIndent() and          *)
(* testInitNewline() describe them.                                         *)

\* The values given to __init__() as `indent` and as `newline`.
Indents == {<<" ", " ">>, <<"\t">>, <<" ", " ", " ", " ">>, <<"x", "x", "x">>, <<" ", "x">>}
Newlines == {<<"\r">>, <<"\n">>, <<"\r", "\n">>, <<"x", "x", "x">>, <<"\n", "\r">>}

\* The check of `indent`: blanks and tabs only.
validateIndent(indentArg) ==
    IF \E i \in 1..Len(indentArg) : indentArg[i] \notin {" ", "\t"}
    THEN AssertionError("indent must contain only blanks or tabs but also has: %r",
                        <<indentArg>>)
    ELSE NoError

\* The check of `newline`: one of \r, \n and \r\n.
validateNewline(newlineArg) ==
    IF newlineArg \notin {<<"\r">>, <<"\n">>, <<"\r", "\n">>}
    THEN AssertionError("newline is %r but must be one of: %r", <<newlineArg>>)
    ELSE NoError

\* __init__() with the parameters `indent` and `newline`: both are checked
\* before anything else happens, and the newline after the prolog is the
\* given one.
constructConfigured(prettyArg, indentArg, newlineArg, encodingArg, prologArg, versionArg) ==
    LET made == construct(prettyArg, encodingArg, prologArg, versionArg)
    IN  IF validateIndent(indentArg).exc # "none"
        THEN Return(NoWriter, validateIndent(indentArg))
        ELSE IF validateNewline(newlineArg).exc # "none"
        THEN Return(NoWriter, validateNewline(newlineArg))
        ELSE IF made.error.exc = "none" /\ prettyArg /\ prologArg
        THEN Return([made.self EXCEPT
                         !.output = SubSeq(@, 1, Len(@) - 1) \o <<newlineArg>>],
                    NoError)
        ELSE made

Configure ==
    /\ Unconstructed
    /\ \E prettyArg \in BOOLEAN, prologArg \in BOOLEAN, encodingArg \in Encodings,
          indentArg \in Indents, newlineArg \in Newlines :
           Constructed(constructConfigured(prettyArg, indentArg, newlineArg, encodingArg,
                                           prologArg, givenText),
                       [indent |-> indentArg, newline |-> newlineArg])

ConfigureSpec == ConstructInit /\ [][Configure]_vars

----------------------------------------------------------------------------
(* A caller who uses the writer in a with-block. __enter__() and __exit__() *)
(* are not part of this version of loxun.py: they are modelled as the       *)
(* specification and testWithOk(), testWithMissingEndTag() and              *)
(* testWithException() describe them.                                       *)

\* __exit__(): calls close() once; the error of close() reaches the caller
\* unless an error is leaving the block, which then goes on to the caller.
exit(self, propagating) ==
    IF propagating.exc # "none" THEN Return(close(self).self, propagating)
    ELSE close(self)

\* The caller is inside the with-block.
InWith == last.op # "exit"

\* The error of the last call, when it failed.
LastError == [exc |-> last.exc, fmt |-> last.fmt, args |-> last.args]

\* The errors that can leave the block: the ValueError of testWithException()
\* raised by the caller, and the error of the call that has just failed.
Escaping == {ValueError("test", <<>>)} \cup (IF last.exc # "none" THEN {LastError} ELSE {})

WithBody == InWith /\ TextNext
LeaveWith == InWith /\ Call("exit", exit(Self, NoError))
EscapeWith == /\ InWith
              /\ \E propagating \in Escaping : Call("exit", exit(Self, propagating))

WithNext == WithBody \/ LeaveWith \/ EscapeWith

WithSpec == Init /\ [][WithNext]_vars

----------------------------------------------------------------------------
(* A caller of _splitPossiblyQualifiedName() with a name of any form.       *)

\* The characters of the names: two letters and the colon.
NameAlphabet == {"a", "b", ":"}

\* The names given: every text of at most MaxNameLen characters.
NameInputs == UNION {[1..n -> NameAlphabet] : n \in 0..MaxNameLen}

\* _splitPossiblyQualifiedName(u"tag name", name) returned or raised: the
\* caller has the pair, or has seen the error.
SplitName ==
    /\ last.op = "init"
    /\ LET split == splitPossiblyQualifiedName("tag name", givenText)
       IN  /\ last' = [op |-> "splitPossiblyQualifiedName", exc |-> split.error.exc,
                       fmt |-> split.error.fmt, args |-> split.error.args]
           /\ result' = IF split.error.exc = "none" THEN split.result ELSE None
    /\ calls' = [calls EXCEPT !.n = @ + 1]
    /\ UNCHANGED <<writerVars, layout, givenText>>

\* Init with the caller's name drawn from NameInputs.
NameInit ==
    \E prettyArg \in BOOLEAN :
        /\ pretty = init(prettyArg).pretty
        /\ elementStack = init(prettyArg).elementStack
        /\ namespaces = init(prettyArg).namespaces
        /\ namespaceUris = init(prettyArg).namespaceUris
        /\ namespacesToAdd = init(prettyArg).namespacesToAdd
        /\ isOpen = init(prettyArg).isOpen
        /\ contentHasBeenWritten = init(prettyArg).contentHasBeenWritten
        /\ output = init(prettyArg).output
        /\ layout = DefaultLayout
        /\ givenText \in NameInputs
        /\ last = [op |-> "init", exc |-> "none", fmt |-> "", args |-> <<>>]
        /\ result = None
        /\ calls = NoCalls

\* The caller declares the prefix the split gave, opens an element of the
\* name given, and ends it naming it or not.
DeclarePrefix ==
    /\ last.op = "splitPossiblyQualifiedName" /\ last.exc = "none" /\ result[1] # None
    /\ Call("addNamespace", addNamespace(Self, result[1], <<"u">>))
OpenNamed ==
    /\ last.op \in {"splitPossiblyQualifiedName", "addNamespace"}
    /\ Call("startTag", startTag(Self, givenText, <<>>))
CloseNamed ==
    /\ last.op = "startTag"
    /\ \E expectedQualifiedName \in {None, givenText} :
           Call("endTag", endTag(Self, expectedQualifiedName))

NameNext == SplitName \/ DeclarePrefix \/ OpenNamed \/ CloseNamed

NameSpec == NameInit /\ [][NameNext]_vars

----------------------------------------------------------------------------
(* A caller who makes at most MaxOps calls of any method of the writer, the *)
(* calls that fail included.                                                *)

\* The texts given to text(), comment(), cdata(), processingInstruction()
\* and raw().
AnyTexts == {None, <<>>, <<"t">>, <<"-", "-">>, <<"?", ">">>}

\* The names and attributes given to startTag() and tag(): an attribute with
\* a declared or undeclared prefix, one without a value, and one whose name
\* starts with a colon.
AnyNames == {<<"a">>, <<"p", ":", "a">>}
AnyAttributeSets == {<<>>, (<<"p", ":", "k">> :> <<"v">>), (<<"k">> :> None),
                     (<<":", "k">> :> <<"v">>)}

\* The caller has calls left.
CallsLeft == calls.n < MaxOps

AnyAddNamespace == CallsLeft /\ Call("addNamespace", addNamespace(Self, <<"p">>, <<"u">>))
AnyStartTag ==
    /\ CallsLeft
    /\ \E qualifiedName \in AnyNames, attributes \in AnyAttributeSets :
           Call("startTag", startTag(Self, qualifiedName, attributes))
AnyTag ==
    /\ CallsLeft
    /\ \E qualifiedName \in AnyNames, attributes \in AnyAttributeSets :
           Call("tag", tag(Self, qualifiedName, attributes))
AnyEndTag ==
    /\ CallsLeft
    /\ \E expectedQualifiedName \in {None, <<"a">>, <<"b">>} :
           Call("endTag", endTag(Self, expectedQualifiedName))
AnyText == CallsLeft /\ Call("text", text(Self, givenText))
AnyComment ==
    /\ CallsLeft
    /\ \E embedInBlanks \in BOOLEAN : Call("comment", comment(Self, givenText, embedInBlanks))
AnyCdata == CallsLeft /\ Call("cdata", cdata(Self, givenText))
AnyProcessingInstruction ==
    /\ CallsLeft
    /\ \E target \in {None, <<"a">>} :
           Call("processingInstruction", processingInstruction(Self, target, givenText))
AnyRaw == CallsLeft /\ Call("raw", raw(Self, givenText))
AnyNewline == CallsLeft /\ Call("newline", Return(newline(Self), NoError))
AnyClose == CallsLeft /\ Call("close", close(Self))

\* Init with the caller's text drawn from AnyTexts.
AnyInit ==
    \E prettyArg \in BOOLEAN :
        /\ pretty = init(prettyArg).pretty
        /\ elementStack = init(prettyArg).elementStack
        /\ namespaces = init(prettyArg).namespaces
        /\ namespaceUris = init(prettyArg).namespaceUris
        /\ namespacesToAdd = init(prettyArg).namespacesToAdd
        /\ isOpen = init(prettyArg).isOpen
        /\ contentHasBeenWritten = init(prettyArg).contentHasBeenWritten
        /\ output = init(prettyArg).output
        /\ layout = DefaultLayout
        /\ givenText \in AnyTexts
        /\ last = [op |-> "init", exc |-> "none", fmt |-> "", args |-> <<>>]
        /\ result = None
        /\ calls = NoCalls

AnyNext ==
    \/ AnyAddNamespace \/ AnyStartTag \/ AnyTag \/ AnyEndTag \/ AnyText \/ AnyComment
    \/ AnyCdata \/ AnyProcessingInstruction \/ AnyRaw \/ AnyNewline \/ AnyClose

AnySpec == AnyInit /\ [][AnyNext]_vars

----------------------------------------------------------------------------
(* Vocabulary of the properties. *)

\* The step is one call of the method `op`.
IsCall(op) == calls'.n = calls.n + 1 /\ last'.op = op

\* The qualified name of an entry of the element stack.
Qualified(element) ==
    IF element[1] = None THEN element[2] ELSE element[1] \o <<":">> \o element[2]

\* Result of reading an output whose end tags do not match its start tags.
Unbalanced == <<None>>

\* Index of the first ">" written at or after position i.
RECURSIVE TagEnd(_, _)
TagEnd(out, i) == IF i > Len(out) \/ out[i] = <<">">> THEN i ELSE TagEnd(out, i + 1)

\* Reads the tags written to `out` from position i on: the names of the start
\* tags that have no end tag yet, outermost first, or Unbalanced when an end
\* tag does not carry the name of the innermost start tag still open.
RECURSIVE OpenElements(_, _, _)
OpenElements(out, i, open) ==
    IF i > Len(out) THEN open
    ELSE IF out[i] # <<"<">> THEN OpenElements(out, i + 1, open)
    ELSE IF out[i + 1] = <<"/">>
    THEN IF open # <<>> /\ open[Len(open)] = out[i + 2]
         THEN OpenElements(out, i + 3, SubSeq(open, 1, Len(open) - 1))
         ELSE Unbalanced
    ELSE IF out[TagEnd(out, i) - 1] = <<"/">>
    THEN OpenElements(out, TagEnd(out, i) + 1, open)
    ELSE OpenElements(out, TagEnd(out, i) + 1, Append(open, out[i + 1]))

NamespaceMissing == "namespace '%s' for %s '%s' must be added before use"
NameMismatch == "tag name must be %s but is %s"
StackEmpty == "tag stack must not be empty"
MissingEndTags == "missing end tags must be added: %s"

----------------------------------------------------------------------------
(* Properties. *)

\* C1: when every call so far has succeeded and the last one was close(), the
\* tags written are balanced: each end tag carries the name of the innermost
\* start tag still open, and no start tag is left without its end tag.
C1_BalancedAfterClose ==
    (calls.failed = 0 /\ last.op = "close") => OpenElements(output, 1, <<>>) = <<>>

\* C1 witness: a successful close() after two nested elements were written and ended.
C1_Witness ==
    /\ calls.failed = 0 /\ last.op = "close"
    /\ calls.startTagOk = 2 /\ calls.endTagOk = 2

\* C2 as stated: close() fails exactly when the stack is not empty; after as
\* many successful endTag calls as successful startTag calls it succeeds, and
\* after N >= 1 startTag calls and fewer than N endTag calls it fails.
C2_Original ==
    [][IsCall("close") =>
          /\ (last'.exc # "none") <=> (elementStack # <<>>)
          /\ calls.startTagOk = calls.endTagOk => last'.exc = "none"
          /\ (calls.startTagOk >= 1 /\ calls.endTagOk < calls.startTagOk)
                 => last'.exc # "none"]_vars

\* C2 amended: close() fails exactly when the stack is not empty; after as many
\* successful endTag calls as successful startTag calls it succeeds; after
\* N >= 1 successful startTag calls, fewer than N endTag calls of any outcome
\* and no earlier close() call it fails.
C2_CloseFailsIffOpen ==
    [][IsCall("close") =>
          /\ (last'.exc # "none") <=> (elementStack # <<>>)
          /\ calls.startTagOk = calls.endTagOk => last'.exc = "none"
          /\ (calls.startTagOk >= 1 /\ calls.endTag < calls.startTagOk /\ calls.close = 0)
                 => last'.exc # "none"]_vars

\* C2 witness: the first close() has failed after two startTag and one endTag call.
C2_Witness ==
    /\ last.op = "close" /\ last.exc = "XmlError" /\ calls.close = 1
    /\ calls.startTagOk = 2 /\ calls.endTag = 1

\* The end tags close() is to list for a stack: innermost first, comma-joined.
RECURSIVE StillOpen(_)
StillOpen(stack) ==
    IF stack = <<>> THEN <<>>
    ELSE <<"<", "/">> \o Qualified(stack[Len(stack)]) \o <<">">>
         \o (IF Len(stack) > 1
             THEN <<",", " ">> \o StillOpen(SubSeq(stack, 1, Len(stack) - 1))
             ELSE <<>>)

\* C3: when close() fails, its message lists every element that was open,
\* each once, from the innermost to the outermost, comma-joined, as </prefix:name>
\* or </name>.
C3_CloseListsOpenElements ==
    [][(IsCall("close") /\ last'.exc # "none") =>
          /\ last'.exc = "XmlError" /\ last'.fmt = MissingEndTags
          /\ last'.args = <<StillOpen(elementStack)>>]_vars

\* C3 witness: close() has failed with two elements open, the outer one prefixed.
C3_Witness ==
    /\ last.op = "close" /\ last.fmt = MissingEndTags
    /\ last.args = << <<"<", "/", "a", ">", ",", " ", "<", "/", "p", ":", "a", ">">> >>

\* The qualified name of the innermost open element.
InnermostName == Qualified(elementStack[Len(elementStack)])

\* C4 as stated: endTag(expected) with an expected name other than the name of
\* the innermost open element fails, writes nothing and leaves the element
\* stack and the namespace scopes as they were, so that an endTag with the
\* right name made next succeeds.  (An expected name is a non-empty text: the
\* code takes None and the empty text for "no name given".)
C4_Original ==
    [][\A expected \in ExpectedNames \ {None, <<>>} :
          (/\ elementStack # <<>>
           /\ expected # InnermostName
           /\ Call("endTag", endTag(Self, expected)))
          => /\ last'.exc = "XmlError"
             /\ UNCHANGED <<output, elementStack, namespaces>>
             /\ endTag(Self', InnermostName).error.exc = "none"]_vars

\* C4 amended: endTag(expected) with an expected name other than the name of
\* the innermost open element fails with the name-mismatch XmlError, writes
\* nothing and leaves the whole writer state as it was, so that an endTag with
\* the right name made next succeeds unless a namespace added by addNamespace
\* is still waiting for its tag.
C4_MismatchLeavesStack ==
    [][\A expected \in ExpectedNames \ {None, <<>>} :
          (/\ elementStack # <<>>
           /\ expected # InnermostName
           /\ Call("endTag", endTag(Self, expected)))
          => /\ last'.exc = "XmlError" /\ last'.fmt = NameMismatch
             /\ UNCHANGED writerVars
             /\ namespacesToAdd = <<>>
                    => endTag(Self', InnermostName).error.exc = "none"]_vars

\* C4 witness: endTag("a") has failed on the open element p:a, which is still open.
C4_Witness ==
    /\ last.op = "endTag" /\ last.fmt = NameMismatch
    /\ last.args = << <<"a">>, <<"p", ":", "a">> >>
    /\ elementStack # <<>> /\ InnermostName = <<"p", ":", "a">>

\* C5: endTag on an empty element stack fails with the stack underflow
\* XmlError, writes nothing and leaves the writer state as it was.
C5_EndTagOnEmptyStack ==
    [][(IsCall("endTag") /\ elementStack = <<>>) =>
          /\ last'.exc = "XmlError" /\ last'.fmt = StackEmpty
          /\ UNCHANGED writerVars]_vars

\* C5 witness: endTag has failed on the empty stack after an element was written and ended.
C5_Witness ==
    /\ last.op = "endTag" /\ last.fmt = StackEmpty
    /\ calls.endTagOk = 1 /\ elementStack = <<>>

\* C6: after a successful close() the writer is closed for good: isOpen is
\* false and stays false, and every later call fails with the closed-writer
\* XmlError and writes nothing.
C6_Original ==
    [][/\ (IsCall("close") /\ last'.exc = "none") => ~isOpen'
       /\ ~isOpen => /\ ~isOpen'
                     /\ last'.exc = "XmlError"
                     /\ last'.fmt = "operation must be performed before writer is closed"
                     /\ output' = output]_vars

\* The prefixes a tag uses: that of its name and those of its attribute names.
UsedPrefixes(qualifiedName, attributes) ==
    {splitPossiblyQualifiedName("name", n).result[1] :
        n \in {qualifiedName} \cup DOMAIN attributes} \ {None}

\* The prefixes declared at depth `depth` or an enclosing depth, those waiting
\* for the next tag included.
DeclaredPrefixes(depth) ==
    namesOf(namespacesToAdd)
    \cup UNION {namesOf(namespaces[d]) : d \in (0..depth) \cap DOMAIN namespaces}

\* The step is startTag or tag with these arguments.
WritesTag(qualifiedName, attributes) ==
    \/ Call("startTag", startTag(Self, qualifiedName, attributes))
    \/ Call("tag", tag(Self, qualifiedName, attributes))

\* C7: startTag or tag with a prefix, on the element or on an attribute, that
\* is declared neither at the current depth nor at an enclosing one fails with
\* the undeclared-namespace XmlError; declared prefixes are accepted.
C7_Original ==
    [][\A qualifiedName \in QualifiedNames, attributes \in AttributeSets :
          WritesTag(qualifiedName, attributes) =>
              IF UsedPrefixes(qualifiedName, attributes)
                     \subseteq DeclaredPrefixes(Len(elementStack))
              THEN last'.fmt # NamespaceMissing
              ELSE last'.exc = "XmlError" /\ last'.fmt = NamespaceMissing]_vars

\* The namespaces registered for a scope; none when the scope has no entry.
ScopeAt(nss, d) == IF d \in DOMAIN nss THEN nss[d] ELSE <<>>

\* The prefixes registered in the scopes 0..depth.
RegisteredUpTo(nss, depth) == UNION {namesOf(ScopeAt(nss, d)) : d \in 0..depth}

\* The prefix of a qualified name, None when it has none.
PrefixOf(qualifiedName) == splitPossiblyQualifiedName("name", qualifiedName).result[1]

\* In the writer state `self` both startTag and tag reject the name as using
\* an undeclared namespace.
Rejected(self, qualifiedName) ==
    /\ startTag(self, qualifiedName, <<>>).error.fmt = NamespaceMissing
    /\ tag(self, qualifiedName, <<>>).error.fmt = NamespaceMissing

XmlnsP == <<" ", "x", "m", "l", "n", "s", ":", "p", "=", "\"", "u", "\"">>

C9_Original ==
    [][\A qualifiedName \in QualifiedNames :
          (/\ Len(elementStack) >= 1
           /\ Len(namespacesToAdd) = 1
           /\ namespacesToAdd[1][1] = PrefixOf(qualifiedName)
           /\ PrefixOf(qualifiedName) \notin RegisteredUpTo(namespaces, Len(elementStack)))
          => /\ (Call("tag", tag(Self, qualifiedName, <<>>)) /\ last'.exc = "none")
                    => Rejected(Self', qualifiedName)
             /\ (Call("startTag", startTag(Self, qualifiedName, <<>>)) /\ last'.exc = "none")
                    => Rejected(endTag(Self', None).self, qualifiedName)]_vars

\* C10: addNamespace(prefix, uri) fails when the prefix already waits for the
\* next tag or is already registered in the scope of the current depth, and
\* then leaves the waiting namespaces as they were.
C10_Original ==
    [][\A name \in Prefixes, uri \in Uris :
          (/\ Call("addNamespace", addNamespace(Self, name, uri))
           /\ \/ name \in namesOf(namespacesToAdd)
              \/ name \in namesOf(ScopeAt(namespaces, Len(elementStack))))
          => last'.exc # "none" /\ namespacesToAdd' = namespacesToAdd]_vars

\* The texts one call wrote, joined: what the call emitted.
RECURSIVE Flat(_)
Flat(texts) == IF texts = <<>> THEN <<>> ELSE Head(texts) \o Flat(Tail(texts))

\* The texts written by the step, one for each _write().
Written == SubSeq(output', Len(output) + 1, Len(output'))

NamespacesPending == "namespaces must be added before startTag() or tag(): %s"

\* C11: endTag called while a namespace added by addNamespace is still waiting
\* for its tag fails with an XmlError and writes nothing, whatever name it is
\* given and whether or not an element is open.
C11_EndTagWithPendingNamespace ==
    [][(IsCall("endTag") /\ namespacesToAdd # <<>>)
          => last'.exc = "XmlError" /\ output' = output]_vars

\* C11 witness: an element is open, a namespace is waiting, and endTag has
\* been refused because of the waiting namespace.
C11_Witness ==
    /\ last.op = "endTag" /\ last.exc = "XmlError" /\ last.fmt = NamespacesPending
    /\ namespacesToAdd # <<>>
    /\ calls.startTagOk = 1 /\ calls.n = 3

\* The text of the attribute xmlns:<prefix>="<uri>" of a (prefix, uri) pair.
XmlnsAttribute(pair) ==
    <<" ", "x", "m", "l", "n", "s", ":">> \o pair[1] \o <<"=", "\"">> \o pair[2] \o <<"\"">>

\* The elements of a sequence.
Range(seq) == {seq[i] : i \in 1..Len(seq)}

\* The (prefix, uri) pairs the caller draws from.
NamespacePairs == {<<name, uri>> : name \in Prefixes, uri \in Uris}

\* The step wrote a tag with startTag or tag that drained the waiting
\* namespaces: each is an xmlns attribute of the tag and registered at the
\* depth of the tag, none is left waiting, and no other namespace is declared
\* on the tag.
DrainsPending ==
    /\ \A pair \in Range(namespacesToAdd) :
           /\ XmlnsAttribute(pair) \in Range(Written)
           /\ pair \in Range(ScopeAt(namespaces', Len(elementStack)))
    /\ namespacesToAdd' = <<>>
    /\ \A pair \in NamespacePairs \ Range(namespacesToAdd) :
           XmlnsAttribute(pair) \notin Range(Written)

\* C12: a namespace added by addNamespace waits until startTag or tag next
\* writes a tag successfully: a startTag or tag that fails leaves it waiting,
\* and the one that succeeds carries the xmlns attribute of every waiting
\* namespace and of no other, registers each at the depth of the tag and
\* leaves none waiting.
C12_Original ==
    [][(IsCall("startTag") \/ IsCall("tag"))
          => IF last'.exc = "none" THEN DrainsPending
             ELSE namespacesToAdd' = namespacesToAdd]_vars

\* C13: a successful addNamespace(name, uri) appends the one pair (name, uri)
\* at the end of the waiting namespaces and changes nothing else: it writes
\* nothing and leaves the element stack and the namespace scopes as they were.
C13_AddNamespaceOnlyQueues ==
    [][\A name \in Prefixes, uri \in Uris :
          (Call("addNamespace", addNamespace(Self, name, uri)) /\ last'.exc = "none")
              => /\ namespacesToAdd' = Append(namespacesToAdd, <<name, uri>>)
                 /\ UNCHANGED <<pretty, elementStack, namespaces, namespaceUris, isOpen,
                                contentHasBeenWritten, output>>]_vars

\* C13 witness: with an element open, a namespace registered and p waiting,
\* addNamespace(q) has succeeded and q waits behind p.
C13_Witness ==
    /\ last.op = "addNamespace" /\ last.exc = "none"
    /\ namespacesToAdd = << <<(<<"p">>), (<<"u">>)>>, <<(<<"q">>), (<<"u">>)>> >>
    /\ elementStack # <<>> /\ namespaces # <<>> /\ output # <<>>

\* Index of the first "=" of a text.
RECURSIVE FindEquals(_, _)
FindEquals(chunk, i) ==
    IF i > Len(chunk) \/ chunk[i] = "=" THEN i ELSE FindEquals(chunk, i + 1)

\* The attribute names of the tag the texts `written` make up, in the order
\* written: an attribute is written as one text, blank, name, "=", quoted value.
RECURSIVE AttributeNames(_)
AttributeNames(written) ==
    IF written = <<>> THEN <<>>
    ELSE (IF Len(Head(written)) > 1 /\ Head(written)[1] = " "
             /\ FindEquals(Head(written), 1) <= Len(Head(written))
          THEN <<SubSeq(Head(written), 2, FindEquals(Head(written), 1) - 1)>>
          ELSE <<>>) \o AttributeNames(Tail(written))

\* Each text of the sequence is less than the next, as Python compares texts.
StrictlyAscending(names) ==
    \A i \in 1..(Len(names) - 1) : LexLess(names[i], names[i + 1])

\* The names of the xmlns attributes of the waiting namespaces.
XmlnsNames ==
    {<<"x", "m", "l", "n", "s", ":">> \o namespacesToAdd[i][1] :
        i \in 1..Len(namespacesToAdd)}

\* C14: the attributes of every tag written by startTag or tag are those the
\* caller supplied together with the xmlns attributes of the waiting
\* namespaces, each name once, in strictly ascending order of the full
\* qualified names.
C14_AttributesSorted ==
    [][((IsCall("startTag") \/ IsCall("tag")) /\ last'.exc = "none")
          => /\ StrictlyAscending(AttributeNames(Written))
             /\ \A qualifiedName \in QualifiedNames, attributes \in AttributeSets :
                    (\/ Call("startTag", startTag(Self, qualifiedName, attributes))
                     \/ Call("tag", tag(Self, qualifiedName, attributes)))
                    => Range(AttributeNames(Written)) = DOMAIN attributes \cup XmlnsNames]_vars

\* C14 witness: a tag was written with the caller's attribute p:k and the
\* xmlns attributes of p and q, three attributes in all.
C14_Witness ==
    /\ last.op \in {"startTag", "tag"} /\ last.exc = "none"
    /\ \E i \in 1..(Len(output) - 2) :
           /\ output[i] = <<" ", "p", ":", "k", "=", "\"", "v", "\"">>
           /\ output[i + 1] = XmlnsAttribute(<<(<<"p">>), (<<"u">>)>>)
           /\ output[i + 2] = XmlnsAttribute(<<(<<"q">>), (<<"u">>)>>)
           /\ TagEnd(output, i) >= Len(output) - 1

\* The indentation of depth `depth`: two blanks for each level.
RECURSIVE Indentation(_)
Indentation(depth) ==
    IF depth <= 0 THEN <<>> ELSE <<" ", " ">> \o Indentation(depth - 1)

\* Reads a pretty printed output line by line from position i on: a line is
\* an indentation, then a tag or one text, then a newline.  `open` holds the
\* indentations of the start tags that have no end tag yet.  TRUE when every
\* end tag has the indentation of its start tag and every line between the
\* two, tag or text, is indented by one level more than they are.
RECURSIVE LineIndents(_, _, _)
LineIndents(out, i, open) ==
    LET inside == IF open = <<>> THEN <<>> ELSE open[Len(open)] \o <<" ", " ">>
    IN  IF i > Len(out) THEN TRUE
        ELSE IF out[i + 1] # <<"<">>
        THEN out[i] = inside /\ LineIndents(out, i + 3, open)
        ELSE IF out[i + 2] = <<"/">>
        THEN /\ open # <<>>
             /\ out[i] = open[Len(open)]
             /\ LineIndents(out, TagEnd(out, i) + 2, SubSeq(open, 1, Len(open) - 1))
        ELSE IF out[TagEnd(out, i) - 1] = <<"/">>
        THEN out[i] = inside /\ LineIndents(out, TagEnd(out, i) + 2, open)
        ELSE out[i] = inside /\ LineIndents(out, TagEnd(out, i) + 2, Append(open, out[i]))

\* C15: with pretty printing a start tag or self-closing tag is indented by
\* the depth of the element stack before the call, an end tag by the depth
\* after the pop, and each line of a text by the current depth; so in the
\* output every end tag has the indentation of its start tag, and the lines
\* between the two have one level more.
C15_PrettyIndentation ==
    [][pretty =>
          /\ ((IsCall("startTag") \/ IsCall("tag")) /\ last'.exc = "none")
                 => /\ Written[1] = Indentation(Len(elementStack))
                    /\ Written[2] = <<"<">>
          /\ (IsCall("endTag") /\ last'.exc = "none")
                 => /\ Len(elementStack') = Len(elementStack) - 1
                    /\ Written[1] = Indentation(Len(elementStack'))
                    /\ Written[2] = <<"<">> /\ Written[3] = <<"/">>
          /\ (IsCall("text") /\ last'.exc = "none")
                 => /\ Len(Written) % 3 = 0
                    /\ \A i \in 1..Len(Written) :
                           i % 3 = 1 => Written[i] = Indentation(Len(elementStack))
          /\ LineIndents(output', 1, <<>>)]_vars

\* C15 witness: pretty printing is on, two elements were opened, a text of
\* two lines was written at depth 2 and the inner element has been closed.
C15_Witness ==
    /\ pretty /\ last.op = "endTag" /\ last.exc = "none"
    /\ Len(elementStack) = 1 /\ calls.n = 4 /\ calls.startTagOk = 2
    /\ \E i \in 1..(Len(output) - 5) :
           /\ output[i] = Indentation(2) /\ output[i + 2] = <<"\n">>
           /\ output[i + 3] = Indentation(2) /\ output[i + 5] = <<"\n">>
           /\ output[i + 1] # <<"<">> /\ output[i + 4] # <<"<">>
    /\ output[Len(output) - 5] = Indentation(1)

\* A text of blanks only, the empty text included: an indentation, or the
\* blank put before the slash of a self-closing tag.
Blank(chunk) == \A i \in 1..Len(chunk) : chunk[i] = " "

\* No character of the text is a blank, a tab or a line terminator.
NoLayout(chunk) == \A i \in 1..Len(chunk) : chunk[i] \notin {" ", "\t", "\r", "\n"}

SimpleDocumentLines ==
    <<
       <<"<", "?", "x", "m", "l", " ", "v", "e", "r", "s", "i", "o", "n", "=", "\"", "1",
         ".", "0", "\"", " ", "e", "n", "c", "o", "d", "i", "n", "g", "=", "\"", "u", "t",
         "f", "-", "8", "\"", "?", ">">>,
       <<"<", "h", "t", "m", "l", ">">>,
       <<" ", " ", "<", "b", "o", "d", "y", " ", "i", "d", "=", "\"", "t", "o", "p", "\"",
         ">">>,
       <<" ", " ", " ", " ", "H", "e", "l", "l", "o", " ", "w", "o", "r", "l", "d", "!">>,
       <<" ", " ", "<", "/", "b", "o", "d", "y", ">">>,
       <<"<", "/", "h", "t", "m", "l", ">">>
    >>

\* The lines as one text, each line ended by a newline.
RECURSIVE Joined(_)
Joined(textLines) ==
    IF textLines = <<>> THEN <<>>
    ELSE Head(textLines) \o <<"\n">> \o Joined(Tail(textLines))

\* The writer after construction with defaults and the first k calls of the example.
RECURSIVE AfterCalls(_)
AfterCalls(k) ==
    IF k = 0 THEN initDefault ELSE Made(SimpleDocument[k], AfterCalls(k - 1)).self

\* C17: a writer constructed with defaults and driven through the calls of the
\* example, startTag("html"), startTag("body", {"id": "top"}),
\* text("Hello world!"), endTag(), endTag(), close(): every call succeeds, and
\* after close() the output is exactly the six lines of the example.
C17_SimpleDocument ==
    [][\A k \in 1..Len(SimpleDocument) :
          (/\ calls.n = k - 1 /\ calls.failed = 0
           /\ Self = AfterCalls(k - 1)
           /\ Returned(SimpleDocument[k].op, Made(SimpleDocument[k], Self)))
          => /\ last'.exc = "none"
             /\ k = Len(SimpleDocument) => Flat(output') = Joined(SimpleDocumentLines)]_vars

\* C17 witness: the six calls of the example have been made, all succeeded,
\* close() was the last, and the six lines are in the output.
C17_Witness ==
    /\ calls.n = 6 /\ calls.failed = 0 /\ last.op = "close"
    /\ calls.startTagOk = 2 /\ calls.endTagOk = 2 /\ calls.text = 1
    /\ Self = AfterCalls(6)
    /\ Flat(output) = Joined(SimpleDocumentLines)

\* C18: text(None) fails with an XmlError and writes nothing; text("")
\* succeeds and emits no character, no indentation and no newline, with and
\* without pretty printing, at every depth.
C18_TextNoneAndEmpty ==
    [][/\ Returned("text", text(Self, None))
             => last'.exc = "XmlError" /\ output' = output
       /\ Returned("text", text(Self, <<>>))
             => last'.exc = "none" /\ Flat(Written) = <<>>]_vars

\* C18 witness: with pretty printing, inside the one open element, a text
\* call has succeeded and the output still holds the start tag only: the
\* text was the empty one.
C18_Witness ==
    /\ pretty /\ last.op = "text" /\ last.exc = "none"
    /\ calls.n = 2 /\ Len(elementStack) = 1
    /\ output = << <<>>, <<"<">>, <<"a">>, <<">">>, <<"\n">> >>

\* The text has the text `part` at position i.
HasAt(chunk, i, part) ==
    /\ i + Len(part) - 1 <= Len(chunk)
    /\ SubSeq(chunk, i, i + Len(part) - 1) = part

Amp == <<"&", "a", "m", "p", ";">>
Lt == <<"&", "l", "t", ";">>
Gt == <<"&", "g", "t", ";">>

\* What an XML parser reads from character data: each of the entity
\* references &amp; &lt; &gt; is its character, every other character itself.
RECURSIVE Unescaped(_)
Unescaped(chunk) ==
    IF chunk = <<>> THEN <<>>
    ELSE IF HasAt(chunk, 1, Amp) THEN <<"&">> \o Unescaped(SubSeq(chunk, 6, Len(chunk)))
    ELSE IF HasAt(chunk, 1, Lt) THEN <<"<">> \o Unescaped(SubSeq(chunk, 5, Len(chunk)))
    ELSE IF HasAt(chunk, 1, Gt) THEN <<">">> \o Unescaped(SubSeq(chunk, 5, Len(chunk)))
    ELSE <<Head(chunk)>> \o Unescaped(Tail(chunk))

\* The text is character data: it holds no < and no >, and every & of it
\* starts one of the three entity references.
CharacterData(chunk) ==
    \A i \in 1..Len(chunk) :
        /\ chunk[i] \notin {"<", ">"}
        /\ chunk[i] = "&" => HasAt(chunk, i, Amp) \/ HasAt(chunk, i, Lt) \/ HasAt(chunk, i, Gt)

\* The text is trimmed: no blank or tab in front, no blank, tab or line
\* terminator at the end.
Trimmed(chunk) ==
    chunk # <<>> => /\ chunk[1] \notin {" ", "\t"}
                    /\ chunk[Len(chunk)] \notin {" ", "\t", "\r", "\n"}

\* The texts `bodies` are pieces of `value`, in their order, and what `value`
\* holds before, between and after them is layout only: blanks, tabs and line
\* terminators.
RECURSIVE Covers(_, _)
Covers(value, bodies) ==
    IF bodies = <<>> THEN \A i \in 1..Len(value) : value[i] \in {" ", "\t", "\r", "\n"}
    ELSE \E i \in 0..Len(value) :
            /\ \A j \in 1..i : value[j] \in {" ", "\t", "\r", "\n"}
            /\ HasAt(value, i + 1, Head(bodies))
            /\ Covers(SubSeq(value, i + 1 + Len(Head(bodies)), Len(value)), Tail(bodies))

\* The texts written for the lines of a pretty printed text, without the
\* indentations and newlines around them.
LineBodies(written) == [k \in 1..(Len(written) \div 3) |-> written[3 * k - 1]]

\* C19: text(s) writes s with every <, & and > replaced by its entity
\* reference and no other character changed, so that un-escaping what was
\* written gives s back; with pretty printing this holds line by line: every
\* line written is trimmed and un-escapes to a piece of s, the pieces come in
\* the order of s, and what s holds besides them is layout only.
C19_TextEscaping ==
    [][(IsCall("text") /\ givenText # None) =>
          IF pretty
          THEN /\ Len(Written) % 3 = 0
               /\ \A k \in 1..Len(LineBodies(Written)) :
                      /\ CharacterData(LineBodies(Written)[k])
                      /\ Trimmed(Unescaped(LineBodies(Written)[k]))
                      /\ Written[3 * k] = <<"\n">>
               /\ Covers(givenText, [k \in 1..Len(LineBodies(Written)) |->
                                        Unescaped(LineBodies(Written)[k])])
          ELSE /\ CharacterData(Flat(Written))
               /\ Unescaped(Flat(Written)) = givenText]_vars

\* C19 witness: text("<&>") was written without pretty printing as
\* &lt;&amp;&gt;.
C19_Witness ==
    /\ ~pretty /\ last.op = "text" /\ last.exc = "none"
    /\ givenText = <<"<", "&", ">">>
    /\ output[Len(output)] = Lt \o Amp \o Gt

\* With pretty printing, text("&\n<") was written as the two lines &amp; and &lt;.
C19_WitnessPretty ==
    /\ pretty /\ last.op = "text" /\ last.exc = "none"
    /\ givenText = <<"&", "\n", "<">>
    /\ Len(elementStack) = 1
    /\ SubSeq(output, Len(output) - 5, Len(output))
           = <<Indentation(1), Amp, <<"\n">>, Indentation(1), Lt, <<"\n">> >>

\* The physical lines of a text: a line ends at "\r\n", at a lone "\r" and at
\* "\n"; the terminators are not part of the lines.
RECURSIVE PhysicalLines(_, _)
PhysicalLines(value, line) ==
    IF value = <<>> THEN (IF line = <<>> THEN <<>> ELSE <<line>>)
    ELSE IF HasAt(value, 1, <<"\r", "\n">>)
    THEN <<line>> \o PhysicalLines(SubSeq(value, 3, Len(value)), <<>>)
    ELSE IF value[1] \in {"\r", "\n"} THEN <<line>> \o PhysicalLines(Tail(value), <<>>)
    ELSE PhysicalLines(Tail(value), Append(line, value[1]))

\* A line without its leading blanks and tabs and its trailing blanks, tabs
\* and line terminators.
Stripped(line) == rstrip(lstrip(line, {" ", "\t"}), {" ", "\t", "\r", "\n"})

\* C20: with pretty printing text(s) writes, for each physical line of s, the
\* lines ending at every "\n", every lone "\r" and every "\r\n", the current
\* indentation, the stripped line and one newline; no line written holds a
\* "\r" or "\n" of s.
C20_Original ==
    [][(pretty /\ IsCall("text") /\ givenText # None) =>
          /\ Len(Written) = 3 * Len(PhysicalLines(givenText, <<>>))
          /\ \A k \in 1..Len(PhysicalLines(givenText, <<>>)) :
                 /\ Written[3 * k - 2] = Indentation(Len(elementStack))
                 /\ Unescaped(Written[3 * k - 1]) = Stripped(PhysicalLines(givenText, <<>>)[k])
                 /\ Written[3 * k] = <<"\n">>
          /\ \A k \in 1..Len(LineBodies(Written)) :
                 /\ ~Contains(LineBodies(Written)[k], <<"\r">>)
                 /\ ~Contains(LineBodies(Written)[k], <<"\n">>)]_vars

\* The text `part` occurs in the text.
Occurs(chunk, part) == \E i \in 1..Len(chunk) : HasAt(chunk, i, part)

\* What a block written at the current depth has around it: the indentation
\* in front and the newline behind, with pretty printing only.
Framed(block) ==
    IF pretty THEN Indentation(Len(elementStack)) \o block \o <<"\n">> ELSE block

\* C21: comment(text) fails with an XmlError whenever text holds "--", and
\* comment("", embedInBlanks=False) fails with an XmlError; a comment call that
\* fails writes nothing and leaves the writer as it was; comment("") with
\* embedInBlanks at its default succeeds and emits <!--  -->.
C21_CommentGuard ==
    [][\A embedInBlanks \in BOOLEAN :
          Returned("comment", comment(Self, givenText, embedInBlanks))
          => /\ (givenText # None /\ Occurs(givenText, <<"-", "-">>))
                    => last'.exc = "XmlError"
             /\ (givenText = <<>> /\ ~embedInBlanks) => last'.exc = "XmlError"
             /\ last'.exc # "none" => UNCHANGED writerVars
             /\ (givenText = <<>> /\ embedInBlanks)
                    => /\ last'.exc = "none"
                       /\ Flat(Written)
                              = Framed(<<"<", "!", "-", "-", " ", " ", "-", "-", ">">>)]_vars

\* C21 witness: inside an open element comment("a--") has been refused and
\* the output holds the start tag only.
C21_Witness ==
    /\ last.op = "comment" /\ last.exc = "XmlError"
    /\ givenText = <<"a", "-", "-">>
    /\ Len(elementStack) = 1 /\ Flat(output) = <<"<", "a", ">">>

\* The text is one line: it holds no line terminator.
SingleLine(value) == ~Occurs(value, <<"\n">>) /\ ~Occurs(value, <<"\r">>)

\* Whitespace characters.
Whitespace == {" ", "\t", "\n", "\r"}

\* The blank comment() puts between "<!--" and a text that is embedded in
\* blanks and does not start with whitespace.
BlankBefore(value, embedInBlanks) ==
    IF embedInBlanks /\ ~(value # <<>> /\ value[1] \in Whitespace) THEN <<" ">> ELSE <<>>

\* The blank comment() puts between a text that is embedded in blanks and
\* does not end with whitespace and "-->".
BlankAfter(value, embedInBlanks) ==
    IF embedInBlanks /\ ~(value # <<>> /\ value[Len(value)] \in Whitespace)
    THEN <<" ">> ELSE <<>>

\* C22: a successful comment call on a text of one line writes "<!--", a
\* blank exactly when embedInBlanks is true and the text does not start with
\* whitespace, the text, a blank exactly when embedInBlanks is true and the
\* text does not end with whitespace, and "-->"; also for a text that is one
\* whitespace character.
C22_Original ==
    [][\A embedInBlanks \in BOOLEAN :
          (/\ givenText # None /\ SingleLine(givenText)
           /\ Returned("comment", comment(Self, givenText, embedInBlanks))
           /\ last'.exc = "none")
          => Unescaped(Flat(Written))
                 = Framed(<<"<", "!", "-", "-">> \o BlankBefore(givenText, embedInBlanks)
                              \o givenText \o BlankAfter(givenText, embedInBlanks)
                              \o <<"-", "-", ">">>)]_vars

\* The lines of what was written: a line ends at "\n", which is not part of
\* it; what follows the last "\n" is a line when it is not empty.
RECURSIVE WrittenLines(_, _)
WrittenLines(chunk, line) ==
    IF chunk = <<>> THEN (IF line = <<>> THEN <<>> ELSE <<line>>)
    ELSE IF chunk[1] = "\n" THEN <<line>> \o WrittenLines(Tail(chunk), <<>>)
    ELSE WrittenLines(Tail(chunk), Append(line, chunk[1]))

\* The block form of a comment at the given depth: "<!--" on a line, each
\* physical line of the text on a line, "-->" on a line, each indented.
CommentBlock(value, depth) ==
    <<Indentation(depth) \o <<"<", "!", "-", "-">> >>
    \o [k \in 1..Len(PhysicalLines(value, <<>>)) |->
            Indentation(depth) \o PhysicalLines(value, <<>>)[k]]
    \o <<Indentation(depth) \o <<"-", "-", ">">> >>

\* C23: a successful comment call on a text that holds a line terminator
\* writes the block form, whatever embedInBlanks and pretty are: "<!--" alone
\* on a line, each physical line of the text on a line of its own, "-->"
\* alone on a line, every line indented to the current depth.
C23_Original ==
    [][\A embedInBlanks \in BOOLEAN :
          (/\ givenText # None /\ ~SingleLine(givenText)
           /\ Returned("comment", comment(Self, givenText, embedInBlanks))
           /\ last'.exc = "none")
          => WrittenLines(Unescaped(Flat(Written)), <<>>)
                 = CommentBlock(givenText, Len(elementStack))]_vars

\* The text `part` occurs in the text at or after position `from` only as the
\* end of the text.
OnlyAtEnd(chunk, part, from) ==
    \A i \in from..Len(chunk) : HasAt(chunk, i, part) => i = Len(chunk) - Len(part) + 1

\* The call wrote nothing.
NothingWritten == output' = output

\* A raw block: a call with the body `body` fails with an XmlError when the
\* body holds the end marker, a failing call writes nothing, and a call that
\* succeeds writes the start marker, the body as it is and the end marker,
\* framed by indentation and newline with pretty printing, with the end
\* marker occurring from position `from` of the block on only at its end.
RawBlockWritten(body, start, end, from) ==
    /\ Occurs(body, end) => last'.exc = "XmlError"
    /\ last'.exc # "none" => NothingWritten
    /\ last'.exc = "none" => /\ Flat(Written) = Framed(start \o body \o end)
                             /\ OnlyAtEnd(start \o body \o end, end, from)

\* The raw block calls of a step: cdata(text) with the text as body and
\* processingInstruction(target, text) with target, blank and text as body.
RawBlocks(cdataFrom, processingFrom) ==
    /\ givenText # None /\ Returned("cdata", cdata(Self, givenText))
           => RawBlockWritten(givenText, <<"<", "!", "[", "C", "D", "A", "T", "A", "[">>,
                              <<"]", "]", ">">>, cdataFrom)
    /\ \A target \in Targets \ {None} :
           (/\ givenText \notin {None, <<>>}
            /\ Returned("processingInstruction",
                        processingInstruction(Self, target, givenText)))
           => RawBlockWritten(target \o <<" ">> \o givenText, <<"<", "?">>, <<"?", ">">>,
                              processingFrom)
    /\ \A target \in Targets :
           (/\ Returned("processingInstruction",
                        processingInstruction(Self, target, givenText))
            /\ last'.exc # "none")
           => NothingWritten
    /\ (Returned("cdata", cdata(Self, givenText)) /\ last'.exc # "none") => NothingWritten

\* C24 as stated: cdata(text) fails when text holds "]]>",
\* processingInstruction(target, text) fails when the joined body holds "?>",
\* a failing call emits nothing, and a succeeding call emits exactly
\* indentation, start marker, unescaped body, end marker and newline, the end
\* marker occurring nowhere in the emitted block but at its end.
C24_Original == [][RawBlocks(1, 1)]_vars

\* C24 amended: as above, the end marker occurring nowhere after the start
\* marker of the emitted block but at its end.
C24_RawBlockEndMarker == [][RawBlocks(10, 3)]_vars

\* C24 witness: inside <a>, cdata("]]>") failed with an XmlError and the
\* output is still <a>.
C24_Witness ==
    /\ last.op = "cdata" /\ last.exc = "XmlError"
    /\ givenText = <<"]", "]", ">">>
    /\ Len(elementStack) = 1 /\ Flat(output) = <<"<", "a", ">">>

\* The argument is missing or empty.
Missing(value) == value \in {None, <<>>}

\* C25: processingInstruction(target, text) fails with an XmlError and writes
\* nothing when target is missing or empty and when text is missing or empty;
\* any other call that succeeds writes <?, target, one blank, text, ?>.
C25_Original ==
    [][\A target \in Targets :
          Returned("processingInstruction", processingInstruction(Self, target, givenText))
          => IF Missing(target) \/ Missing(givenText)
             THEN last'.exc = "XmlError" /\ NothingWritten
             ELSE last'.exc = "none"
                      => Flat(Written) = Framed(<<"<", "?">> \o target \o <<" ">>
                                                    \o givenText \o <<"?", ">">>)]_vars

\* The prolog of a document of the given version and encoding.
Prolog(version, encoding) ==
    <<"<", "?", "x", "m", "l", " ", "v", "e", "r", "s", "i", "o", "n", "=", "\"">>
        \o version \o <<"\"", " ", "e", "n", "c", "o", "d", "i", "n", "g", "=", "\"">>
        \o encoding \o <<"\"", "?", ">">>

\* What was written is kept: the output grows at its end only.
OutputKept == Len(output) <= Len(output') /\ SubSeq(output', 1, Len(output)) = output

\* C26: nothing is written before the writer is constructed; a construction
\* with prolog=True that succeeds writes <?xml version="V" encoding="E"?>,
\* V and E written as attribute values, which un-escaping gives back, and a
\* newline after it when pretty, into the empty sink; a construction
\* with prolog=False writes nothing; every later call only adds to the end
\* of the output, so the prolog stays the first output.
C26_PrologFirst ==
    [][/\ Unconstructed => output = <<>>
       /\ ~Unconstructed => OutputKept
       /\ \A prettyArg \in BOOLEAN, prologArg \in BOOLEAN, encodingArg \in Encodings :
              (/\ Unconstructed
               /\ Constructed(construct(prettyArg, encodingArg, prologArg, givenText),
                              DefaultLayout)
               /\ last'.exc = "none")
              => Unescaped(Flat(output')) = IF ~prologArg THEN <<>>
                                 ELSE Prolog(givenText, encodingArg)
                                          \o (IF prettyArg THEN <<"\n">> ELSE <<>>)]_vars

\* C26 witness: a pretty printing writer constructed with version 1.1, the
\* prolog in front of the element <a> written with it.
C26_Witness ==
    /\ pretty /\ last.op = "startTag" /\ last.exc = "none" /\ calls.n = 1
    /\ givenText = <<"1", ".", "1">>
    /\ Flat(output) = Prolog(<<"1", ".", "1">>, DefaultEncoding)
                          \o <<"\n", "<", "a", ">", "\n">>

SeesMissingEndTags(error) == error.exc = "XmlError" /\ error.fmt = MissingEndTags

\* What one call of close() does to the writer: the stack is emptied and
\* nothing is written.
ClosedOnce == elementStack' = <<>> /\ output' = output

\* C28: leaving the with-block normally calls close() once: the stack is
\* emptied and nothing is written, the caller sees the missing-end-tag
\* XmlError when an element was still open, and no error when none was.
C28_WithClosesOnce ==
    [][(InWith /\ Returned("exit", exit(Self, NoError)))
          => /\ ClosedOnce
             /\ elementStack # <<>> => SeesMissingEndTags(last')
             /\ elementStack = <<>> => last'.exc = "none"]_vars

\* C28 witness: the block was left normally after startTag("a") alone, and
\* the caller has seen the missing-end-tag error.
C28_Witness ==
    /\ last.op = "exit" /\ SeesMissingEndTags(last)
    /\ calls.n = 2 /\ calls.startTagOk = 1 /\ elementStack = <<>>

\* C29: when an error leaves the with-block the caller sees that error,
\* also with elements still open, and close() has still run; the error of
\* close() is kept from the caller in this case only: with no error leaving
\* the block and an element open the caller sees the missing-end-tag error.
C29_OriginalErrorWins ==
    [][/\ \A propagating \in Escaping :
              (InWith /\ Returned("exit", exit(Self, propagating)))
              => /\ [exc |-> last'.exc, fmt |-> last'.fmt, args |-> last'.args] = propagating
                 /\ ~SeesMissingEndTags(last')
                 /\ ClosedOnce
       /\ (InWith /\ elementStack # <<>> /\ Returned("exit", exit(Self, NoError)))
              => SeesMissingEndTags(last')]_vars

\* C29 witness: the caller raised ValueError("test") inside the block after
\* startTag("a") alone and has seen the ValueError.
C29_Witness ==
    /\ last.op = "exit" /\ last.exc = "ValueError" /\ last.fmt = "test"
    /\ calls.n = 2 /\ calls.startTagOk = 1 /\ elementStack = <<>>

\* The name holds a colon.
HasColon(name) == \E i \in 1..Len(name) : name[i] = ":"

\* The place of the first colon of a name that holds one.
FirstColon(name) ==
    CHOOSE i \in 1..Len(name) : name[i] = ":" /\ \A j \in 1..(i - 1) : name[j] # ":"

\* C30: splitting a name fails with an XmlError for the empty name, for a
\* name that starts with a colon and for a name with nothing after its first
\* colon; any other name without a colon gives (None, name), and any other
\* name with a colon gives the text before the first colon and everything
\* after it, later colons included.
C30_SplitAtFirstColon ==
    last.op = "splitPossiblyQualifiedName"
    => IF \/ givenText = <<>>
          \/ HasColon(givenText) /\ FirstColon(givenText) \in {1, Len(givenText)}
       THEN last.exc = "XmlError" /\ result = None
       ELSE /\ last.exc = "none"
            /\ result = IF ~HasColon(givenText) THEN <<None, givenText>>
                        ELSE <<SubSeq(givenText, 1, FirstColon(givenText) - 1),
                               SubSeq(givenText, FirstColon(givenText) + 1,
                                      Len(givenText))>>

\* C30 witness: the name a:b: was split into a and b:.
C30_Witness ==
    /\ last.op = "splitPossiblyQualifiedName" /\ last.exc = "none"
    /\ givenText = <<"a", ":", "b", ":">>
    /\ result = << <<"a">>, <<"b", ":">> >>

\* The element name a start tag or end tag written by the step carries: the
\* text written after "<", or after "<" and "/".
WrittenName(mode) ==
    Written[(IF pretty THEN 1 ELSE 0) + (IF mode = CLOSE_AT_START THEN 3 ELSE 2)]

\* C31: joining what the split of a name gave gives the name back, for every
\* name the split accepts; the start tag written for the name carries it, the
\* element stack keeps it, and the end tag of the element carries it.
C31_JoinInvertsSplit ==
    [][/\ (last'.op = "splitPossiblyQualifiedName" /\ last'.exc = "none")
              => joinPossiblyQualifiedName(result'[1], result'[2]) = givenText
       /\ (IsCall("startTag") /\ last'.exc = "none")
              => /\ WrittenName(CLOSE_NONE) = givenText
                 /\ Qualified(elementStack'[Len(elementStack')]) = givenText
       /\ (IsCall("endTag") /\ last'.exc = "none")
              => /\ WrittenName(CLOSE_AT_START) = givenText
                 /\ Qualified(elementStack[Len(elementStack)]) = givenText]_vars

\* C31 witness: the element a:b: was opened and ended, the prefix a
\* declared, and both tags carry the name.
C31_Witness ==
    /\ last.op = "endTag" /\ last.exc = "none" /\ ~pretty
    /\ givenText = <<"a", ":", "b", ":">>
    /\ Flat(output) = <<"<", "a", ":", "b", ":", " ", "x", "m", "l", "n", "s", ":", "a",
                        "=", "\"", "u", "\"", ">", "<", "/", "a", ":", "b", ":", ">">>

\* C32: a startTag or tag call that fails with an XmlError, for a prefix that
\* is not declared or a malformed name, leaves the writer as it was: the
\* waiting namespaces, the registered namespaces, the element stack and the
\* output are unchanged.
C32_Original ==
    [][((IsCall("startTag") \/ IsCall("tag")) /\ last'.exc = "XmlError")
          => UNCHANGED writerVars]_vars

\* C33: an endTag call that fails because a namespace is still waiting for
\* its tag leaves the element stack and the registered namespaces as they
\* were: the innermost element is still open.
C33_Original ==
    [][(IsCall("endTag") /\ last'.exc = "XmlError" /\ last'.fmt = NamespacesPending)
          => UNCHANGED <<elementStack, namespaces>>]_vars

\* The step is a call of one of the methods that write markup or text.
IsWritingCall ==
    /\ calls'.n = calls.n + 1
    /\ last'.op \in {"startTag", "tag", "endTag", "text", "comment", "cdata",
                     "processingInstruction"}

\* C34: a call of startTag, tag, endTag, text, comment, cdata or
\* processingInstruction that fails, with whatever error, writes nothing:
\* the output after the call is the output before it.
C34_Original == [][(IsWritingCall /\ last'.exc # "none") => output' = output]_vars

\* C35: in every state reached by addNamespace, startTag, tag, endTag and
\* close calls, failing ones included, every depth that has namespaces
\* registered is at most the depth of the element stack.
C35_Original == \A depth \in DOMAIN namespaces : depth <= Len(elementStack)

\* The prefixes registered at a depth, in the order of their registration.
PrefixesAt(depth) == [i \in 1..Len(namespaces[depth]) |-> namespaces[depth][i][1]]

\* The namespaces registered at a depth hold every prefix at most once.
OncePerScope ==
    \A depth \in DOMAIN namespaces :
        \A i \in 1..Len(PrefixesAt(depth)), j \in 1..Len(PrefixesAt(depth)) :
            PrefixesAt(depth)[i] = PrefixesAt(depth)[j] => i = j

\* The next tag would take two declarations of one prefix, or a declaration
\* of a prefix that is registered at the current depth.
Clashing ==
    \/ \E i \in 1..Len(namespacesToAdd), j \in 1..Len(namespacesToAdd) :
           i # j /\ namespacesToAdd[i][1] = namespacesToAdd[j][1]
    \/ /\ Len(elementStack) \in DOMAIN namespaces
       /\ \E i \in 1..Len(namespacesToAdd) :
              namespacesToAdd[i][1] \in Range(PrefixesAt(Len(elementStack)))

\* C36: every step leaves every prefix registered at most once at each
\* depth, and a startTag or tag call whose tag would take two declarations
\* of one prefix, or a declaration of a prefix registered at its depth, fails.
C36_PrefixOncePerScope ==
    [][/\ OncePerScope'
       /\ ((IsCall("startTag") \/ IsCall("tag")) /\ Clashing) => last'.exc # "none"]_vars

\* C36 witness: a startTag call was rejected for a second declaration of a
\* prefix, and the prefix is registered once at depth 0.
C36_Witness ==
    /\ last.op = "startTag" /\ last.exc = "AssertionError"
    /\ 0 \in DOMAIN namespaces /\ Len(namespaces[0]) = 1 /\ elementStack = <<>>

\* The prefix is registered at the given depth or at a depth above it.
VisibleAt(prefix, depth) ==
    \E d \in 0..depth : d \in DOMAIN namespaces /\ prefix \in Range(PrefixesAt(d))

\* Every open element that has a prefix finds it registered at the depth it
\* was opened at, or above.
OpenPrefixesVisible ==
    \A k \in 1..Len(elementStack) :
        elementStack[k][1] # None => VisibleAt(elementStack[k][1], k - 1)

\* C37: after every call, failed ones included, the prefix of every open
\* element is visible at the depth of the element, and an endTag call made
\* with no namespace waiting does not fail for an undeclared namespace.
C37_OpenPrefixStaysVisible ==
    [][/\ OpenPrefixesVisible'
       /\ (IsCall("endTag") /\ namespacesToAdd = <<>>) => last'.fmt # NamespaceMissing]_vars

\* C37 witness: after successful calls only, the end tag of the element p:a,
\* opened inside another element, was written.
C37_Witness ==
    /\ calls.failed = 0 /\ last.op = "endTag" /\ ~pretty
    /\ Len(elementStack) = 1
    /\ output[Len(output) - 1] = <<"p", ":", "a">>

\* At least one character has reached the output.
CharacterWritten == Flat(output) # <<>>

\* C38: _contentHasBeenWritten is true exactly when a character has been
\* written to the output: it is false while only empty strings were written,
\* true from the first non-empty write on, and never false again.
C38_FlagTracksFirstCharacter ==
    /\ [](contentHasBeenWritten <=> CharacterWritten)
    /\ [][contentHasBeenWritten => contentHasBeenWritten']_vars

\* C38 witness: the first call wrote the empty string and left the flag
\* false, a later call wrote a character and set it.
C38_Witness ==
    /\ Len(output) >= 2 /\ output[1] = <<>> /\ output[2] # <<>>
    /\ calls.n = 2 /\ calls.failed = 0
    /\ contentHasBeenWritten

\* The methods that are said to leave the stack of open elements alone, and
\* those of them that are said to leave the namespaces alone, too.
StackKeepers == {"tag", "text", "comment", "cdata", "processingInstruction", "raw",
                 "newline", "addNamespace"}
NamespaceKeepers == {"text", "comment", "cdata", "processingInstruction", "raw", "newline"}

\* C39: only startTag makes the stack of open elements longer and only
\* endTag and close make it shorter; tag, text, comment, cdata,
\* processingInstruction, raw, newline and addNamespace leave it as it was,
\* and text, comment, cdata, processingInstruction, raw and newline leave
\* the registered and the waiting namespaces as they were, whether the call
\* fails or not.
C39_StackAndNamespaceFrame ==
    [][/\ Len(elementStack') > Len(elementStack) => last'.op = "startTag"
       /\ Len(elementStack') < Len(elementStack) => last'.op \in {"endTag", "close"}
       /\ last'.op \in StackKeepers => elementStack' = elementStack
       /\ last'.op \in NamespaceKeepers
              => /\ namespaces' = namespaces
                 /\ namespaceUris' = namespaceUris
                 /\ namespacesToAdd' = namespacesToAdd]_vars

\* C39 witness: inside the open element a, with the prefix p declared for
\* it, tag() wrote an empty element and left a the only open element.
C39_Witness ==
    /\ last.op = "tag" /\ last.exc = "none"
    /\ elementStack = <<<<None, <<"a">>>>>>
    /\ 0 \in DOMAIN namespaces

\* C40: every close() call, failed or not, leaves no element open and writes
\* nothing; so a close() call that follows a close() call succeeds, also when
\* the earlier one failed for the elements that were open.
C40_SecondCloseSucceeds ==
    [][IsCall("close") => /\ elementStack' = <<>>
                          /\ output' = output
                          /\ last.op = "close" => last'.exc = "none"]_vars

\* C40 witness: after startTag("a") the first close() failed and the second,
\* called directly after it, succeeded.
C40_Witness ==
    /\ last.op = "close" /\ last.exc = "none"
    /\ calls.n = 3 /\ calls.close = 2 /\ calls.failed = 1 /\ calls.startTagOk = 1

====
